---- MODULE Spec2Model ----
(***************************************************************************)
(* Wedding budget tracker (src/src/App.jsx): the App component's state,    *)
(* its effects and handlers, and the realtime database they talk to.       *)
(*                                                                         *)
(* The database is a tree of string keys.  Every client sends its requests *)
(* (reads and writes) over one connection, so the server serves them in    *)
(* the order they were issued; the replies to reads and the snapshots of a *)
(* subscription come back asynchronously.                                  *)
(***************************************************************************)
EXTENDS Integers, Sequences, FiniteSets, TLC

\* ------------------------------------------------------------------ bounds
MaxWeddings == 2      \* keys push(ref(db, "weddings")) may hand out
MaxOutbox == 3        \* requests a client may have in flight
MaxSignIns == 2       \* sign-ins in one run, over all browsers
MaxInvites == 1       \* invites sent in one run, over all members
MaxOps == 3           \* budget and expense operations in one run
MaxCatOps == 3        \* category and expense operations in one run
MaxExpenses == 2      \* expenses the Expenses tab starts with
MaxSyncOps == 2       \* operations of any kind in one run of the two members
MaxSharedOps == 2     \* operations in one run of the shared browser

\* ---------------------------------------------------------------- universe
Clients == {"c1", "c2"}
Users == {"u1", "u2"}

\* the accounts somebody signs in with on the browser c
AccountsOf(c) == IF c = "c1" THEN {"u1"} ELSE {"u2"}

NoUser == "null"      \* user === null
NoWedding == "null"   \* weddingId === null

\* user.email, a string of characters
Email(u) == IF u = "u1" THEN <<"a", "@", "x", ".", "y">> ELSE <<"b", "@", "x", ".", "y">>

\* user.displayName (empty when the account has none)
DisplayName(u) == IF u = "u1" THEN <<"A">> ELSE <<>>

\* push() keys, in the order they are generated
WeddingKeys == <<"w1", "w2", "w3", "w4", "w5">>
ExpenseKeys == <<"e1", "e2", "e3", "e4", "e5">>
GuestKeys == <<"g1", "g2", "g3", "g4", "g5">>
VendorKeys == <<"v1", "v2", "v3", "v4", "v5">>

\* the ids addCategory builds: slug of the name, "-", four characters of the clock
CategoryKeys == <<"cake-1", "cake-2", "cake-3", "cake-4", "cake-5">>

\* ---------------------------------------------------------- tree of the db
Null == [k \in {} |-> 0]

Put(t, k, v) == [x \in (DOMAIN t) \cup {k} |-> IF x = k THEN v ELSE t[x]]

Del(t, k) == [x \in (DOMAIN t) \ {k} |-> t[x]]

RECURSIVE Exists(_, _)
Exists(t, p) ==
  IF p = <<>> THEN TRUE
  ELSE Head(p) \in DOMAIN t /\ Exists(t[Head(p)], Tail(p))

RECURSIVE Val(_, _)
Val(t, p) == IF p = <<>> THEN t ELSE Val(t[Head(p)], Tail(p))

\* set(ref(db, p), v)
RECURSIVE SetAt(_, _, _)
SetAt(t, p, v) ==
  IF p = <<>> THEN v
  ELSE LET k == Head(p)
           child == IF k \in DOMAIN t THEN t[k] ELSE Null
       IN Put(t, k, SetAt(child, Tail(p), v))

\* remove(ref(db, p)); a node left without children does not exist
RECURSIVE RemoveAt(_, _)
RemoveAt(t, p) ==
  IF Head(p) \notin DOMAIN t THEN t
  ELSE IF Len(p) = 1 THEN Del(t, Head(p))
  ELSE LET c == RemoveAt(t[Head(p)], Tail(p))
       IN IF DOMAIN c = {} THEN Del(t, Head(p)) ELSE Put(t, Head(p), c)

\* update(ref(db, p), partial): a shallow merge of the children of p
RECURSIVE UpdateAt(_, _, _)
UpdateAt(t, p, partial) ==
  IF DOMAIN partial = {} THEN t
  ELSE LET k == CHOOSE x \in DOMAIN partial : TRUE
       IN UpdateAt(SetAt(t, p \o <<k>>, partial[k]), p, Del(partial, k))

ApplyWrite(t, r) ==
  CASE r.op = "set" -> SetAt(t, r.path, r.val)
    [] r.op = "remove" -> RemoveAt(t, r.path)
    [] r.op = "update" -> UpdateAt(t, r.path, r.val)

\* ------------------------------------------------------------- constants
DEFAULT_CATEGORIES == <<
  [id |-> "venue", name |-> "Venue", icon |-> "venue", budget |-> 0],
  [id |-> "catering", name |-> "Catering", icon |-> "catering", budget |-> 0],
  [id |-> "decoration", name |-> "Decoration", icon |-> "decoration", budget |-> 0],
  [id |-> "photography", name |-> "Photography", icon |-> "photography", budget |-> 0],
  [id |-> "outfit", name |-> "Outfit & Attire", icon |-> "outfit", budget |-> 0],
  [id |-> "invitations", name |-> "Invitations", icon |-> "invitations", budget |-> 0],
  [id |-> "music", name |-> "Music / DJ", icon |-> "music", budget |-> 0],
  [id |-> "transport", name |-> "Transportation", icon |-> "transport", budget |-> 0],
  [id |-> "misc", name |-> "Miscellaneous", icon |-> "misc", budget |-> 0] >>

DefaultBudget == 30000
DefaultCostPerGuest == 75

\* ------------------------------------------------------------------ state
VARIABLES
  db,            \* the realtime database: users/, weddings/, invites/
  pushCount,     \* how many keys push() has generated, per collection
  outbox,        \* per client: requests sent and not yet served, in order
  replies,       \* per client: replies to get() whose .then has not run yet
  user, authLoading, weddingId,
  darkMode, totalBudget, categories, expenses, guests, costPerGuest,
  vendors, members, dataLoaded,
  searchTerm, filterCat, filterStatus,
  snapDue,       \* per client: the open subscription has a snapshot to deliver
  signIns,       \* sign-ins so far
  invitesSent,   \* invites sent so far
  ops,           \* operations on the household's data so far
  listening,     \* per client: the households it has an onValue listener on
  download,      \* per client: the text of the CSV file it exported last
  invited,       \* the emails handleInvite has sent an invite for so far
  seen,          \* per client: the Invite in the store at its latest sign-in,
                 \* and what the reads of that sign-in found
  cascade        \* per client: the category of its latest deleteCat and the
                 \* expenses of that category, added by other members, that
                 \* the store held when it was issued

storeVars == <<db, pushCount>>
netVars == <<outbox, replies>>
authVars == <<user, authLoading, weddingId>>
dataVars == <<darkMode, totalBudget, categories, expenses, guests, costPerGuest,
              vendors, members, dataLoaded>>
viewVars == <<searchTerm, filterCat, filterStatus>>
countVars == <<signIns, invitesSent, ops>>
vars == <<storeVars, netVars, authVars, dataVars, viewVars, snapDue, listening, countVars,
          seen, cascade, download, invited>>

Unread == "unread"

NoCascade == [wid |-> "null", cat |-> "null", had |-> {}]

NoDownload == <<>>    \* nothing exported yet

\* ------------------------------------------------------ reading the store
UserPath(u) == <<"users", u>>
WeddingPath(w) == <<"weddings", w>>
MemberPath(w, u) == <<"weddings", w, "members", u>>

\* email.replace(/\./g, ",")
InviteKey(email) == [i \in 1..Len(email) |-> IF email[i] = "." THEN "," ELSE email[i]]

InvitePath(email) == <<"invites", InviteKey(email)>>

\* str.trim()
RECURSIVE TrimLeft(_)
TrimLeft(s) == IF s # <<>> /\ Head(s) = " " THEN TrimLeft(Tail(s)) ELSE s

RECURSIVE TrimRight(_)
TrimRight(s) ==
  IF s # <<>> /\ s[Len(s)] = " " THEN TrimRight(SubSeq(s, 1, Len(s) - 1)) ELSE s

Trim(s) == TrimRight(TrimLeft(s))

\* snap.val() of a get() or of a subscription (null when nothing is there)
Snap(p) == IF Exists(db, p) THEN [exists |-> TRUE, val |-> Val(db, p)]
           ELSE [exists |-> FALSE, val |-> Null]

\* the keys of a mapping in the order the store lists them
KeyOrder == CategoryKeys \o
            <<"catering", "decoration", "invitations", "misc", "music", "outfit",
              "photography", "transport", "venue">> \o
            ExpenseKeys \o GuestKeys \o <<"u1", "u2">> \o VendorKeys

Keys(m) == SelectSeq(KeyOrder, LAMBDA k : k \in DOMAIN m)

\* Object.values(m)
ObjectValues(m) == [i \in 1..Len(Keys(m)) |-> m[Keys(m)[i]]]

\* Object.entries(m).map(([id, e]) => ({ [name]: id, ...e }))
Entries(m, name) ==
  [i \in 1..Len(Keys(m)) |-> m[Keys(m)[i]] @@ (name :> Keys(m)[i])]

Field(d, f, default) == IF f \in DOMAIN d THEN d[f] ELSE default

\* the household id a read found, null when it found none
Found(snap) ==
  IF snap.exists /\ "weddingId" \in DOMAIN snap.val THEN snap.val.weddingId ELSE NoWedding

InvitedTo(snap) == Found(snap)

\* ----------------------------------------------------------- React state
\* the useState initial values of App
Init ==
  /\ db = Null
  /\ pushCount = [weddings |-> 0, expenses |-> 0, categories |-> 0, guests |-> 0,
                  vendors |-> 0]
  /\ outbox = [c \in Clients |-> <<>>]
  /\ replies = [c \in Clients |-> {}]
  /\ user = [c \in Clients |-> NoUser]
  /\ authLoading = [c \in Clients |-> TRUE]
  /\ weddingId = [c \in Clients |-> NoWedding]
  /\ darkMode = [c \in Clients |-> FALSE]
  /\ totalBudget = [c \in Clients |-> DefaultBudget]
  /\ categories = [c \in Clients |-> DEFAULT_CATEGORIES]
  /\ expenses = [c \in Clients |-> <<>>]
  /\ guests = [c \in Clients |-> <<>>]
  /\ costPerGuest = [c \in Clients |-> DefaultCostPerGuest]
  /\ vendors = [c \in Clients |-> <<>>]
  /\ members = [c \in Clients |-> <<>>]
  /\ dataLoaded = [c \in Clients |-> FALSE]
  /\ searchTerm = [c \in Clients |-> <<>>]
  /\ filterCat = [c \in Clients |-> "all"]
  /\ filterStatus = [c \in Clients |-> "all"]
  /\ snapDue = [c \in Clients |-> FALSE]
  /\ listening = [c \in Clients |-> {}]
  /\ signIns = 0
  /\ invitesSent = 0
  /\ ops = 0
  /\ seen = [c \in Clients |-> [sid |-> 0, u |-> NoUser, had |-> NoWedding,
                                 profile |-> Unread, invite |-> Unread]]
  /\ cascade = [c \in Clients |-> NoCascade]
  /\ download = [c \in Clients |-> NoDownload]
  /\ invited = {}

\* the gates in front of the main view: authLoading, !user, !dataLoaded
MainView(c) == ~authLoading[c] /\ user[c] # NoUser /\ dataLoaded[c]

\* a handler issues at most three requests; it runs when they fit the queue
Room(c) == Len(outbox[c]) + 3 <= MaxOutbox

\* setWeddingId(w) and the "subscribe to wedding data" effect it triggers:
\* the cleanup closes the subscription of the old id, and a non-null new id
\* opens one, whose first snapshot is then due
Subscribe(c, w) ==
  IF w = weddingId[c] THEN snapDue[c] ELSE w # NoWedding

Listen_NoCleanup(c, w) ==
  IF w = weddingId[c] THEN listening[c]
  ELSE listening[c] \cup ({w} \ {NoWedding})

\* the listeners after setWeddingId(w): the effect's cleanup, off(wRef), drops
\* those on the old household; onValue(wRef, ...) adds one on the new
Listen(c, w) ==
  IF w = weddingId[c] THEN listening[c]
  ELSE (listening[c] \ {weddingId[c]}) \cup ({w} \ {NoWedding})

\* ------------------------------------------------------------------ auth
\* onAuthStateChanged fires with a user: setUser(u), then the effects that
\* depend on [user]: "resolve wedding ID" and "check for invite on login"
SignIn(c, u) ==
  /\ user[c] = NoUser
  /\ Cardinality(replies[c]) + Len(outbox[c]) + 3 <= MaxOutbox
  /\ signIns < MaxSignIns
  /\ signIns' = signIns + 1
  /\ seen' = [seen EXCEPT ![c] = [sid |-> seen[c].sid + 1, u |-> u,
                                  had |-> InvitedTo(Snap(InvitePath(Email(u)))),
                                  profile |-> Unread, invite |-> Unread]]
  /\ user' = [user EXCEPT ![c] = u]
  /\ authLoading' = [authLoading EXCEPT ![c] = FALSE]
  /\ outbox' = [outbox EXCEPT ![c] = @ \o
        << [op |-> "get", path |-> UserPath(u), cb |-> "resolve", u |-> u,
            sid |-> seen[c].sid + 1],
           [op |-> "get", path |-> InvitePath(Email(u)), cb |-> "invite", u |-> u,
            sid |-> seen[c].sid + 1] >>]
  /\ UNCHANGED <<storeVars, replies, weddingId, dataVars, viewVars, snapDue, listening, invitesSent,
                 ops, cascade, download, invited>>

\* the Sign Out button of the main view: onAuthStateChanged fires with null;
\* the resolve effect sets the wedding id to null, the invite effect returns
SignOut(c) ==
  /\ MainView(c)
  /\ user' = [user EXCEPT ![c] = NoUser]
  /\ authLoading' = [authLoading EXCEPT ![c] = FALSE]
  /\ weddingId' = [weddingId EXCEPT ![c] = NoWedding]
  /\ snapDue' = [snapDue EXCEPT ![c] = Subscribe(c, NoWedding)]
  /\ listening' = [listening EXCEPT ![c] = Listen(c, NoWedding)]
  /\ UNCHANGED <<storeVars, netVars, dataVars, viewVars, countVars, seen, cascade, download, invited>>

HasWedding_NeverFound(snap) == FALSE

\* snap.exists() && snap.val().weddingId
HasWedding(snap) == snap.exists /\ "weddingId" \in DOMAIN snap.val

NewWedding_OtherBudget(u) ==
  [owner |-> u, totalBudget |-> 3000, costPerGuest |-> 75, darkMode |-> FALSE,
   categories |-> [k \in {DEFAULT_CATEGORIES[i].id : i \in 1..Len(DEFAULT_CATEGORIES)} |->
      CHOOSE x \in {DEFAULT_CATEGORIES[i] : i \in 1..Len(DEFAULT_CATEGORIES)} : x.id = k]]

\* the document the resolve effect writes for a new wedding
NewWedding(u) ==
  [owner |-> u, totalBudget |-> 30000, costPerGuest |-> 75, darkMode |-> FALSE,
   categories |-> [k \in {DEFAULT_CATEGORIES[i].id : i \in 1..Len(DEFAULT_CATEGORIES)} |->
      CHOOSE x \in {DEFAULT_CATEGORIES[i] : i \in 1..Len(DEFAULT_CATEGORIES)} : x.id = k]]

\* the member record both effects write; name is displayName || email
MemberRecord(u, role) ==
  [email |-> Email(u),
   name |-> IF DisplayName(u) # <<>> THEN DisplayName(u) ELSE Email(u),
   role |-> role]

\* the writes of the resolve effect's bootstrap branch, in order
BootstrapWrites(u, wid, sid) ==
  << [op |-> "set", path |-> WeddingPath(wid), val |-> NewWedding(u), sid |-> sid, cb |-> "resolve"],
     [op |-> "set", path |-> MemberPath(wid, u), val |-> MemberRecord(u, "owner"),
      sid |-> sid, cb |-> "resolve"],
     [op |-> "set", path |-> UserPath(u),
      val |-> [weddingId |-> wid, email |-> Email(u)], sid |-> sid, cb |-> "resolve"] >>

\* the writes of the invite effect, in order
AcceptWrites(u, invWid, sid) ==
  << [op |-> "set", path |-> UserPath(u),
      val |-> [weddingId |-> invWid, email |-> Email(u)], sid |-> sid, cb |-> "invite"],
     [op |-> "set", path |-> MemberPath(invWid, u), val |-> MemberRecord(u, "partner"),
      sid |-> sid, cb |-> "invite"],
     [op |-> "remove", path |-> InvitePath(Email(u)), val |-> Null, sid |-> sid, cb |-> "invite"] >>

\* get(userRef).then((snap) => ...) of the resolve effect, for the user u
\* the effect closed over
ResolveCallback(c, r) ==
  /\ r \in replies[c] /\ r.cb = "resolve"
  /\ replies' = [replies EXCEPT ![c] = @ \ {r}]
  /\ IF HasWedding(r.snap)
     THEN /\ weddingId' = [weddingId EXCEPT ![c] = r.snap.val.weddingId]
          /\ snapDue' = [snapDue EXCEPT ![c] = Subscribe(c, r.snap.val.weddingId)]
          /\ listening' = [listening EXCEPT ![c] = Listen(c, r.snap.val.weddingId)]
          /\ UNCHANGED <<storeVars, outbox>>
     ELSE LET wid == WeddingKeys[pushCount.weddings + 1] IN
          /\ pushCount.weddings < MaxWeddings
          /\ Room(c)
          /\ pushCount' = [pushCount EXCEPT !.weddings = @ + 1]
          /\ outbox' = [outbox EXCEPT ![c] = @ \o BootstrapWrites(r.u, wid, r.sid)]
          /\ weddingId' = [weddingId EXCEPT ![c] = wid]
          /\ snapDue' = [snapDue EXCEPT ![c] = Subscribe(c, wid)]
          /\ listening' = [listening EXCEPT ![c] = Listen(c, wid)]
          /\ UNCHANGED db
  /\ UNCHANGED <<user, authLoading, dataVars, viewVars, countVars, seen, cascade, download, invited>>

\* get(invRef).then((snap) => ...) of the invite effect.  set() rejects a
\* value holding undefined by throwing, which ends the callback.
InviteCallback(c, r) ==
  /\ r \in replies[c] /\ r.cb = "invite"
  /\ replies' = [replies EXCEPT ![c] = @ \ {r}]
  /\ IF r.snap.exists /\ "weddingId" \in DOMAIN r.snap.val
     THEN LET invWid == r.snap.val.weddingId IN
          /\ Room(c)
          /\ outbox' = [outbox EXCEPT ![c] = @ \o AcceptWrites(r.u, invWid, r.sid)]
          /\ weddingId' = [weddingId EXCEPT ![c] = invWid]
          /\ snapDue' = [snapDue EXCEPT ![c] = Subscribe(c, invWid)]
          /\ listening' = [listening EXCEPT ![c] = Listen(c, invWid)]
     ELSE UNCHANGED <<outbox, weddingId, snapDue, listening>>
  /\ UNCHANGED <<storeVars, user, authLoading, dataVars, viewVars, countVars, seen,
                 cascade, download, invited>>

\* what the Team tab's invite box may hold
InviteEmails == {Email("u2"), <<" ">>, <<" ">> \o Email("u2")}

\* handleInvite: the Send Invite button of the Team tab.  A null weddingId
\* is not stored: the invite then has no weddingId child.
handleInvite(c, inviteEmail) ==
  /\ MainView(c)
  /\ Trim(inviteEmail) # <<>>
  /\ Room(c)
  /\ invitesSent < MaxInvites
  /\ invitesSent' = invitesSent + 1
  /\ invited' = invited \cup {Trim(inviteEmail)}
  /\ outbox' = [outbox EXCEPT ![c] = Append(@,
        [op |-> "set", path |-> InvitePath(Trim(inviteEmail)),
         val |-> IF weddingId[c] = NoWedding THEN [invitedBy |-> Email(user[c])]
                 ELSE [weddingId |-> weddingId[c], invitedBy |-> Email(user[c])],
         sid |-> 0, cb |-> "ui"])]
  /\ UNCHANGED <<storeVars, replies, authVars, dataVars, viewVars, snapDue, listening, signIns, ops,
                 seen, cascade, download>>

\* ------------------------------------------------------------- JS values
Digits == <<"0", "1", "2", "3", "4", "5", "6", "7", "8", "9">>

DigitVal(ch) == (CHOOSE i \in 1..Len(Digits) : Digits[i] = ch) - 1

RECURSIVE ParseDigits(_)
ParseDigits(s) ==
  IF s = <<>> THEN 0
  ELSE 10 * ParseDigits(SubSeq(s, 1, Len(s) - 1)) + DigitVal(s[Len(s)])

\* what an input's state holds: the text typed, or the number a handler put there
Str(s) == [t |-> "string", s |-> s]
Num(n) == [t |-> "number", n |-> n]

\* !x is false
Truthy(x) == IF x.t = "string" THEN x.s # <<>> ELSE x.n # 0

\* +x, for the texts an input of type number yields ("" when it holds no number)
ToNumber(x) ==
  IF x.t = "number" THEN x.n
  ELSE IF x.s # <<>> /\ Head(x.s) = "-" THEN 0 - ParseDigits(Tail(x.s))
  ELSE ParseDigits(x.s)

\* a.localeCompare(b) for strings of digits
RECURSIVE LocaleCompare(_, _)
LocaleCompare(a, b) ==
  IF a = <<>> /\ b = <<>> THEN 0
  ELSE IF a = <<>> THEN -1
  ELSE IF b = <<>> THEN 1
  ELSE IF Head(a) = Head(b) THEN LocaleCompare(Tail(a), Tail(b))
  ELSE IF DigitVal(Head(a)) < DigitVal(Head(b)) THEN -1 ELSE 1

\* list.sort((a, b) => (b.date || "").localeCompare(a.date || "")): a stable
\* sort, latest date first.  Element i ends up behind the elements with a
\* later date and the earlier elements with the same date.
SortByDate(list) ==
  LET Cmp(i, j) == LocaleCompare(Field(list[i], "date", <<>>), Field(list[j], "date", <<>>))
      Ahead(i) == {j \in 1..Len(list) : Cmp(j, i) > 0 \/ (Cmp(j, i) = 0 /\ j < i)}
  IN [k \in 1..Len(list) |->
        list[CHOOSE i \in 1..Len(list) : Cardinality(Ahead(i)) = k - 1]]

\* ---------------------------------------------------------------- server
Touches_RootOnly(p, w) == Len(p) = 2 /\ p[1] = "weddings" /\ p[2] = w

\* the paths a write at p changes a subscription to weddings/w for
Touches(p, w) == Len(p) >= 2 /\ p[1] = "weddings" /\ p[2] = w

\* the write r stores an expense of the household w
SetsExpense(r, w) ==
  r.op = "set" /\ Len(r.path) = 4 /\ Touches(r.path, w) /\ r.path[3] = "expenses"

\* the server serves the oldest request of client c: a read is answered with
\* the current value, a write is applied and every open subscription whose
\* subtree changed gets a snapshot
Serve(c) ==
  /\ outbox[c] # <<>>
  /\ LET r == Head(outbox[c]) IN
     /\ outbox' = [outbox EXCEPT ![c] = Tail(@)]
     /\ IF r.op = "get"
        THEN /\ replies' = [replies EXCEPT ![c] = @ \cup
                    {[cb |-> r.cb, u |-> r.u, sid |-> r.sid, snap |-> Snap(r.path)]}]
             /\ seen' = [seen EXCEPT ![c] =
                    IF r.sid # @.sid THEN @
                    ELSE IF r.cb = "resolve"
                         THEN [@ EXCEPT !.profile = Found(Snap(r.path))]
                         ELSE [@ EXCEPT !.invite = Found(Snap(r.path))]]
             /\ UNCHANGED <<db, snapDue, cascade>>
        ELSE /\ db' = ApplyWrite(db, r)
             /\ snapDue' = [x \in Clients |->
                    snapDue[x] \/ (db' # db /\ \E w \in listening[x] : Touches(r.path, w))]
             /\ cascade' = [x \in Clients |->
                    IF SetsExpense(r, cascade[x].wid)
                    THEN [cascade[x] EXCEPT !.had = @ \ {r.path[4]}]
                    ELSE cascade[x]]
             /\ UNCHANGED <<replies, seen>>
  /\ UNCHANGED <<pushCount, authVars, dataVars, viewVars, countVars, listening, download, invited>>

\* the store's rules reject the oldest write of client c: nothing is applied,
\* the promise set / remove / update returned is rejected, which no caller
\* handles, and the writer's listeners on the path get the stored value again
Reject(c) ==
  /\ outbox[c] # <<>>
  /\ Head(outbox[c]).op # "get"
  /\ outbox' = [outbox EXCEPT ![c] = Tail(@)]
  /\ snapDue' = [snapDue EXCEPT ![c] =
        @ \/ \E w \in listening[c] : Touches(Head(outbox[c]).path, w)]
  /\ UNCHANGED <<storeVars, replies, authVars, dataVars, viewVars, listening, countVars, seen,
                 cascade, download, invited>>

\* ---------------------------------------------------------- subscription
\* no filter of the Expenses tab is set
NoFilter(fc, fs, q) == fc = "all" /\ fs = "all" /\ q = <<>>

\* the expenses array after a render: the filteredExpenses memo sorts its
\* list in place, and with no filter set the list is the expenses array
Rendered(list, fc, fs, q) == IF NoFilter(fc, fs, q) THEN SortByDate(list) ELSE list

SnapExpenses_NoElse(d, old) ==
  IF "expenses" \in DOMAIN d THEN Entries(d.expenses, "id") ELSE old

\* if (d.expenses) setExpenses(Object.entries(...)) else setExpenses([])
SnapExpenses(d, old) ==
  IF "expenses" \in DOMAIN d THEN Entries(d.expenses, "id") ELSE <<>>

\* the onValue callback of the "subscribe to wedding data" effect, and the
\* render its state updates cause
Snapshot(c) ==
  /\ snapDue[c]
  /\ snapDue' = [snapDue EXCEPT ![c] = FALSE]
  /\ \E w \in listening[c] : \E snap \in {Snap(WeddingPath(w))} : \E d \in {snap.val} :
        IF ~snap.exists THEN UNCHANGED dataVars
        ELSE /\ totalBudget' = [totalBudget EXCEPT ![c] = Field(d, "totalBudget", 30000)]
             /\ costPerGuest' = [costPerGuest EXCEPT ![c] = Field(d, "costPerGuest", 75)]
             /\ darkMode' = [darkMode EXCEPT ![c] = Field(d, "darkMode", FALSE)]
             /\ categories' = [categories EXCEPT ![c] =
                    IF "categories" \in DOMAIN d THEN ObjectValues(d.categories) ELSE @]
             /\ expenses' = [expenses EXCEPT ![c] =
                    Rendered(SnapExpenses(d, @), filterCat[c], filterStatus[c], searchTerm[c])]
             /\ guests' = [guests EXCEPT ![c] =
                    IF "guests" \in DOMAIN d THEN Entries(d.guests, "id") ELSE <<>>]
             /\ vendors' = [vendors EXCEPT ![c] =
                    IF "vendors" \in DOMAIN d THEN Entries(d.vendors, "id") ELSE <<>>]
             /\ members' = [members EXCEPT ![c] =
                    IF "members" \in DOMAIN d THEN Entries(d.members, "uid") ELSE <<>>]
             /\ dataLoaded' = [dataLoaded EXCEPT ![c] = TRUE]
  /\ UNCHANGED <<storeVars, netVars, authVars, viewVars, countVars, listening, seen, cascade,
                 download, invited>>

\* ---------------------------------------------------------- write helpers
\* dbSet, dbPush (with the key push() generated), dbRemove, dbUpdate: the
\* requests they send for the handler h, none when weddingId is null
dbSet_Unguarded(c, path, val, h) ==
  << [op |-> "set", path |-> WeddingPath(weddingId[c]) \o path, val |-> val,
      sid |-> 0, cb |-> h] >>

dbSet(c, path, val, h) ==
  IF weddingId[c] = NoWedding THEN <<>>
  ELSE << [op |-> "set", path |-> WeddingPath(weddingId[c]) \o path, val |-> val,
           sid |-> 0, cb |-> h] >>

dbPush(c, path, key, val, h) == dbSet(c, path \o <<key>>, val, h)

dbRemove(c, path, h) ==
  IF weddingId[c] = NoWedding THEN <<>>
  ELSE << [op |-> "remove", path |-> WeddingPath(weddingId[c]) \o path, val |-> Null,
           sid |-> 0, cb |-> h] >>

dbUpdate(c, path, val, h) ==
  IF weddingId[c] = NoWedding THEN <<>>
  ELSE << [op |-> "update", path |-> WeddingPath(weddingId[c]) \o path, val |-> val,
           sid |-> 0, cb |-> h] >>

\* a handler of the main view runs: the requests it sends fit the queue
Handler(c, n) ==
  /\ MainView(c)
  /\ Len(outbox[c]) + n <= MaxOutbox
  /\ ops' = ops + 1

\* ----------------------------------------------------------------- budget
\* what the Total Budget input may hold
BudgetTexts == {<<>>, <<"1">>}

\* the Total Budget input changes: updateBudget(+e.target.value)
updateBudget(c, text) ==
  /\ Handler(c, 1)
  /\ totalBudget' = [totalBudget EXCEPT ![c] = ToNumber(Str(text))]
  /\ outbox' = [outbox EXCEPT ![c] =
        @ \o dbSet(c, <<"totalBudget">>, ToNumber(Str(text)), "updateBudget")]
  /\ UNCHANGED <<storeVars, replies, authVars, darkMode, categories, expenses, guests,
                 costPerGuest, vendors, members, dataLoaded, viewVars, snapDue, listening, signIns,
                 invitesSent, seen, cascade, download, invited>>

\* the theme button of the header: toggleDarkMode
toggleDarkMode(c) ==
  /\ Handler(c, 1)
  /\ darkMode' = [darkMode EXCEPT ![c] = ~@]
  /\ outbox' = [outbox EXCEPT ![c] =
        @ \o dbSet(c, <<"darkMode">>, ~darkMode[c], "toggleDarkMode")]
  /\ UNCHANGED <<storeVars, replies, authVars, totalBudget, categories, expenses, guests,
                 costPerGuest, vendors, members, dataLoaded, viewVars, snapDue, listening,
                 signIns, invitesSent, seen, cascade, download, invited>>

\* --------------------------------------------------------------- expenses
NoExpense == "null"   \* editingExpense === null

Today == <<"2">>      \* new Date().toISOString().slice(0, 10)

\* what the fields of the expense modal may be set to
Descriptions == {<<>>, <<"R">>}
AmountTexts == {<<>>, <<"2">>, <<"-", "1">>}
Statuses == {"unpaid", "paid"}

\* the form openAddExpense sets; its category is categories[0]?.id || ""
AddForm(c) ==
  [category |-> IF categories[c] # <<>> THEN Field(categories[c][1], "id", "") ELSE "",
   description |-> <<>>, vendor |-> <<>>, amount |-> Str(<<>>), status |-> "unpaid",
   date |-> Today]

\* the form openEditExpense(exp) sets
EditForm(exp) ==
  [category |-> exp.category, description |-> exp.description, vendor |-> exp.vendor,
   amount |-> Num(exp.amount), status |-> exp.status, date |-> Field(exp, "date", <<>>)]

\* the forms the modal may hold at Save when it was opened by Add Expense:
\* a description and an amount have been typed
AddForms(c) ==
  {[AddForm(c) EXCEPT !.description = x, !.amount = Str(a)] :
     x \in Descriptions, a \in AmountTexts}

\* the forms the modal may hold at Save when it was opened by the edit button
\* of exp: as opened, or with the amount typed again, or with the status changed
EditForms(exp) ==
  {EditForm(exp)} \cup {[EditForm(exp) EXCEPT !.amount = Str(a)] : a \in AmountTexts}
                  \cup {[EditForm(exp) EXCEPT !.status = x] : x \in Statuses}

\* the entry saveExpense stores
Entry(form, u) ==
  [category |-> form.category, description |-> form.description, vendor |-> form.vendor,
   amount |-> ToNumber(form.amount), status |-> form.status, date |-> form.date,
   addedBy |-> Email(u)]

\* the Save button of the expense modal
saveExpense(c, editingExpense, expenseForm) ==
  /\ Handler(c, 1)
  /\ expenseForm.description # <<>> /\ Truthy(expenseForm.amount)
  /\ LET entry == Entry(expenseForm, user[c])
         key == ExpenseKeys[pushCount.expenses + 1]
     IN IF editingExpense # NoExpense
        THEN /\ outbox' = [outbox EXCEPT ![c] =
                   @ \o dbSet(c, <<"expenses", editingExpense>>, entry, "saveExpense")]
             /\ UNCHANGED pushCount
        ELSE /\ outbox' = [outbox EXCEPT ![c] =
                   @ \o dbPush(c, <<"expenses">>, key, entry, "saveExpense")]
             /\ pushCount' = [pushCount EXCEPT !.expenses =
                   IF weddingId[c] = NoWedding THEN @ ELSE @ + 1]
  /\ UNCHANGED <<db, replies, authVars, dataVars, viewVars, snapDue, listening, signIns, invitesSent,
                 seen, cascade, download, invited>>

\* the delete button of a row of the Expenses tab
deleteExpense(c, id) ==
  /\ Handler(c, 1)
  /\ outbox' = [outbox EXCEPT ![c] = @ \o dbRemove(c, <<"expenses", id>>, "deleteExpense")]
  /\ UNCHANGED <<storeVars, replies, authVars, dataVars, viewVars, snapDue, listening, signIns,
                 invitesSent, seen, cascade, download, invited>>

\* ------------------------------------------------------------- categories
\* what the Add Category modal's name may hold
CategoryNames == {<<" ">>, <<"C", "a", "k", "e">>}

\* addCategory: the id is the slug of the name and the last characters of the clock
addCategory(c, newCatName) ==
  /\ Handler(c, 1)
  /\ Trim(newCatName) # <<>>
  /\ LET id == CategoryKeys[pushCount.categories + 1]
     IN outbox' = [outbox EXCEPT ![c] =
           @ \o dbSet(c, <<"categories", id>>,
                      [id |-> id, name |-> Trim(newCatName), icon |-> "pin", budget |-> 0],
                      "addCategory")]
  /\ pushCount' = [pushCount EXCEPT !.categories = @ + 1]
  /\ UNCHANGED <<db, replies, authVars, dataVars, viewVars, snapDue, listening, signIns, invitesSent,
                 seen, cascade, download, invited>>

\* the c.id of the category cards (undefined for a record without an id)
CategoryIds(c) == {Field(categories[c][i], "id", "undefined") : i \in 1..Len(categories[c])}

\* the expenses of category id, of a list
InCategory(list, id) == SelectSeq(list, LAMBDA e : e.category = id)

\* the expense mapping of household w in the tree t
StoreExpenses(t, w) ==
  IF Exists(t, <<"weddings", w, "expenses">>) THEN Val(t, <<"weddings", w, "expenses">>)
  ELSE Null

\* the category mapping of household w in the tree t
StoreCategories(t, w) ==
  IF Exists(t, <<"weddings", w, "categories">>) THEN Val(t, <<"weddings", w, "categories">>)
  ELSE Null

\* expenses.filter((e) => e.category === id).forEach((e) => dbRemove(...))
RECURSIVE RemoveEach(_, _)
RemoveEach(c, es) ==
  IF es = <<>> THEN <<>>
  ELSE dbRemove(c, <<"expenses", Head(es).id>>, "deleteCat") \o RemoveEach(c, Tail(es))

CascadeRemoves(c, id) == RemoveEach(c, InCategory(expenses[c], id))

deleteCat_AnyCard(c, id) ==
  /\ id \in CategoryIds(c)
  /\ Handler(c, 1 + Len(CascadeRemoves(c, id)))
  /\ outbox' = [outbox EXCEPT ![c] =
        @ \o dbRemove(c, <<"categories", id>>, "deleteCat") \o CascadeRemoves(c, id)]
  /\ cascade' = [cascade EXCEPT ![c] =
        [wid |-> weddingId[c], cat |-> id,
         had |-> {k \in DOMAIN StoreExpenses(db, weddingId[c]) :
                    /\ StoreExpenses(db, weddingId[c])[k].category = id
                    /\ StoreExpenses(db, weddingId[c])[k].addedBy # Email(user[c])}]]
  /\ UNCHANGED <<storeVars, replies, authVars, dataVars, viewVars, snapDue, listening, signIns,
                 invitesSent, seen, download, invited>>

\* deleteCat: the delete button of a category card, shown for the
\* categories that are not among DEFAULT_CATEGORIES
deleteCat(c, id) ==
  /\ id \in CategoryIds(c)
  /\ \A i \in 1..Len(DEFAULT_CATEGORIES) : DEFAULT_CATEGORIES[i].id # id
  /\ Handler(c, 1 + Len(CascadeRemoves(c, id)))
  /\ outbox' = [outbox EXCEPT ![c] =
        @ \o dbRemove(c, <<"categories", id>>, "deleteCat") \o CascadeRemoves(c, id)]
  /\ cascade' = [cascade EXCEPT ![c] =
        [wid |-> weddingId[c], cat |-> id,
         had |-> {k \in DOMAIN StoreExpenses(db, weddingId[c]) :
                    /\ StoreExpenses(db, weddingId[c])[k].category = id
                    /\ StoreExpenses(db, weddingId[c])[k].addedBy # Email(user[c])}]]
  /\ UNCHANGED <<storeVars, replies, authVars, dataVars, viewVars, snapDue, listening, signIns,
                 invitesSent, seen, download, invited>>

\* what the Budget input of a category card may hold
CatBudgetTexts == {<<"5">>}

\* the categories whose Budget input is used: the added ones and one default
BudgetedIds == {CategoryKeys[i] : i \in 1..Len(CategoryKeys)} \cup {"venue"}

\* the categories whose card client c shows: its local categories, less the
\* ones it has itself asked the store to remove (their cards go at once)
CardIds(c) ==
  {id \in CategoryIds(c) :
     /\ id # cascade[c].cat
     /\ \A k \in 1..Len(outbox[c]) :
          ~(outbox[c][k].op = "remove"
            /\ outbox[c][k].path = WeddingPath(weddingId[c]) \o <<"categories", id>>)}

\* the Budget input of a category card changes: setCatBudget(c.id, e.target.value)
setCatBudget(c, id, val) ==
  /\ Handler(c, 1)
  /\ outbox' = [outbox EXCEPT ![c] =
        @ \o dbUpdate(c, <<"categories", id>>, [budget |-> ToNumber(Str(val))],
                      "setCatBudget")]
  /\ UNCHANGED <<storeVars, replies, authVars, dataVars, viewVars, snapDue, listening, signIns,
                 invitesSent, seen, cascade, download, invited>>

\* ------------------------------------------------------ guests and vendors
\* what the Cost Per Guest input may hold
CostTexts == {<<"8">>}

\* the Cost Per Guest input changes: onCostChange(+e.target.value)
updateCostPerGuest(c, text) ==
  /\ Handler(c, 1)
  /\ costPerGuest' = [costPerGuest EXCEPT ![c] = ToNumber(Str(text))]
  /\ outbox' = [outbox EXCEPT ![c] =
        @ \o dbSet(c, <<"costPerGuest">>, ToNumber(Str(text)), "updateCostPerGuest")]
  /\ UNCHANGED <<storeVars, replies, authVars, darkMode, totalBudget, categories, expenses,
                 guests, vendors, members, dataLoaded, viewVars, snapDue, listening, signIns,
                 invitesSent, seen, cascade, download, invited>>

\* what the guest form may hold
GuestNames == {<<" ">>, <<"G", " ">>}

\* handleAdd of GuestList, and addGuest
addGuest(c, name, rsvp) ==
  /\ Handler(c, 1)
  /\ Trim(name) # <<>>
  /\ outbox' = [outbox EXCEPT ![c] =
        @ \o dbPush(c, <<"guests">>, GuestKeys[pushCount.guests + 1],
                    [name |-> Trim(name), rsvp |-> rsvp], "addGuest")]
  /\ pushCount' = [pushCount EXCEPT !.guests = IF weddingId[c] = NoWedding THEN @ ELSE @ + 1]
  /\ UNCHANGED <<db, replies, authVars, dataVars, viewVars, snapDue, listening, signIns, invitesSent,
                 seen, cascade, download, invited>>

\* the RSVP select of a guest row: updateGuest(g.id, { rsvp })
updateGuest(c, id, rsvp) ==
  /\ Handler(c, 1)
  /\ outbox' = [outbox EXCEPT ![c] =
        @ \o dbUpdate(c, <<"guests", id>>, [rsvp |-> rsvp], "updateGuest")]
  /\ UNCHANGED <<storeVars, replies, authVars, dataVars, viewVars, snapDue, listening, signIns,
                 invitesSent, seen, cascade, download, invited>>

\* the delete button of a guest row
removeGuest(c, id) ==
  /\ Handler(c, 1)
  /\ outbox' = [outbox EXCEPT ![c] = @ \o dbRemove(c, <<"guests", id>>, "removeGuest")]
  /\ UNCHANGED <<storeVars, replies, authVars, dataVars, viewVars, snapDue, listening, signIns,
                 invitesSent, seen, cascade, download, invited>>

\* what the vendor form may hold
VendorForms ==
  {[name |-> n, category |-> <<>>, phone |-> <<>>, email |-> <<>>, notes |-> <<>>] :
     n \in {<<>>, <<"V">>}}

\* handleAdd of VendorContacts, and addVendor
addVendor(c, form) ==
  /\ Handler(c, 1)
  /\ Trim(form.name) # <<>>
  /\ outbox' = [outbox EXCEPT ![c] =
        @ \o dbPush(c, <<"vendors">>, VendorKeys[pushCount.vendors + 1], form, "addVendor")]
  /\ pushCount' = [pushCount EXCEPT !.vendors = IF weddingId[c] = NoWedding THEN @ ELSE @ + 1]
  /\ UNCHANGED <<db, replies, authVars, dataVars, viewVars, snapDue, listening, signIns, invitesSent,
                 seen, cascade, download, invited>>

\* the delete button of a vendor card
removeVendor(c, id) ==
  /\ Handler(c, 1)
  /\ outbox' = [outbox EXCEPT ![c] = @ \o dbRemove(c, <<"vendors", id>>, "removeVendor")]
  /\ UNCHANGED <<storeVars, replies, authVars, dataVars, viewVars, snapDue, listening, signIns,
                 invitesSent, seen, cascade, download, invited>>

\* ----------------------------------------------------------- derived data
RECURSIVE SumAmounts(_)
SumAmounts(list) ==
  IF list = <<>> THEN 0 ELSE SumAmounts(SubSeq(list, 1, Len(list) - 1)) + list[Len(list)].amount

\* expenses.reduce((s, e) => s + e.amount, 0)
totalSpent(c) == SumAmounts(expenses[c])

\* expenses.filter((e) => e.status === "paid").reduce((s, e) => s + e.amount, 0)
totalPaid(c) == SumAmounts(SelectSeq(expenses[c], LAMBDA e : e.status = "paid"))

remaining(c) == totalBudget[c] - totalSpent(c)

\* pct = totalBudget > 0 ? Math.min((totalSpent / totalBudget) * 100, 100) : 0,
\* as the fraction num/den with den > 0
pct(c) ==
  IF totalBudget[c] > 0
  THEN IF totalSpent(c) * 100 < 100 * totalBudget[c]
       THEN [num |-> totalSpent(c) * 100, den |-> totalBudget[c]]
       ELSE [num |-> 100, den |-> 1]
  ELSE [num |-> 0, den |-> 1]

\* p > n, for a fraction p
Over(p, n) == p.num > n * p.den

\* the colour of the Budget Used bar
BarColour(c) ==
  IF Over(pct(c), 100) THEN "red" ELSE IF Over(pct(c), 80) THEN "amber" ELSE "brown"

\* the warning under the Budget Used bar
Warning(c) ==
  IF Over(pct(c), 90)
  THEN IF Over(pct(c), 100) THEN "Over budget!" ELSE "Approaching budget limit"
  ELSE "none"

\* the last of the categories with the id
LastWithId(cats, id) ==
  cats[CHOOSE i \in 1..Len(cats) :
         /\ Field(cats[i], "id", "undefined") = id
         /\ \A j \in (i + 1)..Len(cats) : Field(cats[j], "id", "undefined") # id]

\* expenses.forEach((e) => { if (map[e.category]) map[e.category].spent += e.amount; })
RECURSIVE AddSpent(_, _)
AddSpent(map, es) ==
  IF es = <<>> THEN map
  ELSE AddSpent(IF Head(es).category \in DOMAIN map
                THEN [map EXCEPT ![Head(es).category].spent = @ + Head(es).amount]
                ELSE map,
                Tail(es))

catSpending_PaidOnly(c) ==
  AddSpent([id \in CategoryIds(c) |-> ("spent" :> 0) @@ LastWithId(categories[c], id)],
           SelectSeq(expenses[c], LAMBDA e : e.status = "paid"))

\* the catSpending memo: per category id, { ...c, spent }
catSpending(c) ==
  AddSpent([id \in CategoryIds(c) |-> ("spent" :> 0) @@ LastWithId(categories[c], id)],
           expenses[c])

\* ------------------------------------------------------------- CSV export
\* the characters of the strings that stand for ids, names and statuses
Spelling ==
  ("venue" :> <<"v", "e", "n", "u", "e">>) @@
  ("catering" :> <<"c", "a", "t", "e", "r", "i", "n", "g">>) @@
  ("decoration" :> <<"d", "e", "c", "o", "r", "a", "t", "i", "o", "n">>) @@
  ("photography" :> <<"p", "h", "o", "t", "o", "g", "r", "a", "p", "h", "y">>) @@
  ("outfit" :> <<"o", "u", "t", "f", "i", "t">>) @@
  ("invitations" :> <<"i", "n", "v", "i", "t", "a", "t", "i", "o", "n", "s">>) @@
  ("music" :> <<"m", "u", "s", "i", "c">>) @@
  ("transport" :> <<"t", "r", "a", "n", "s", "p", "o", "r", "t">>) @@
  ("misc" :> <<"m", "i", "s", "c">>) @@
  ("Venue" :> <<"V", "e", "n", "u", "e">>) @@
  ("Catering" :> <<"C", "a", "t", "e", "r", "i", "n", "g">>) @@
  ("Decoration" :> <<"D", "e", "c", "o", "r", "a", "t", "i", "o", "n">>) @@
  ("Photography" :> <<"P", "h", "o", "t", "o", "g", "r", "a", "p", "h", "y">>) @@
  ("Outfit & Attire" :> <<"O", "u", "t", "f", "i", "t", " ", "&", " ", "A", "t", "t", "i",
       "r", "e">>) @@
  ("Invitations" :> <<"I", "n", "v", "i", "t", "a", "t", "i", "o", "n", "s">>) @@
  ("Music / DJ" :> <<"M", "u", "s", "i", "c", " ", "/", " ", "D", "J">>) @@
  ("Transportation" :> <<"T", "r", "a", "n", "s", "p", "o", "r", "t", "a", "t", "i", "o",
       "n">>) @@
  ("Miscellaneous" :> <<"M", "i", "s", "c", "e", "l", "l", "a", "n", "e", "o", "u", "s">>) @@
  ("cake-1" :> <<"c", "a", "k", "e", "-", "1">>) @@
  ("cake-2" :> <<"c", "a", "k", "e", "-", "2">>) @@
  ("cake-3" :> <<"c", "a", "k", "e", "-", "3">>) @@
  ("cake-4" :> <<"c", "a", "k", "e", "-", "4">>) @@
  ("cake-5" :> <<"c", "a", "k", "e", "-", "5">>) @@
  ("paid" :> <<"p", "a", "i", "d">>) @@
  ("unpaid" :> <<"u", "n", "p", "a", "i", "d">>) @@
  ("undefined" :> <<"u", "n", "d", "e", "f", "i", "n", "e", "d">>) @@
  ("" :> <<>>)

\* String(c) of a cell that holds an id or a status
IdText(x) == Spelling[x]

\* String(c.name): the names of DEFAULT_CATEGORIES, or what addCategory stored
NameText(cat) ==
  IF "name" \notin DOMAIN cat THEN <<>>
  ELSE IF \E i \in 1..Len(DEFAULT_CATEGORIES) : DEFAULT_CATEGORIES[i].id = Field(cat, "id", "")
       THEN Spelling[cat.name]
       ELSE cat.name

\* the decimal digits of a natural number
RECURSIVE DigitsOf(_)
DigitsOf(n) ==
  IF n < 10 THEN <<Digits[n + 1]>> ELSE Append(DigitsOf(n \div 10), Digits[(n % 10) + 1])

\* n.toFixed(2), for a whole number n
ToFixed2(n) ==
  (IF n < 0 THEN <<"-">> ELSE <<>>) \o DigitsOf(IF n < 0 THEN 0 - n ELSE n) \o <<".", "0", "0">>

\* s.replace(/"/g, '""')
RECURSIVE DoubleQuotes(_)
DoubleQuotes(s) ==
  IF s = <<>> THEN <<>>
  ELSE (IF Head(s) = "\"" THEN <<"\"", "\"">> ELSE <<Head(s)>>) \o DoubleQuotes(Tail(s))

Cell_NoEscape(s) == <<"\"">> \o s \o <<"\"">>

\* `"${String(c).replace(/"/g, '""')}"`
Cell(s) == <<"\"">> \o DoubleQuotes(s) \o <<"\"">>

\* parts.join(sep), for sequences of characters
RECURSIVE Join(_, _)
Join(parts, sep) ==
  IF parts = <<>> THEN <<>>
  ELSE IF Len(parts) = 1 THEN parts[1]
  ELSE parts[1] \o sep \o Join(Tail(parts), sep)

\* catMap[e.category] || e.category, as text: the name of the last category
\* with that id, the id when there is none or its name is empty
CategoryCell(e, cats) ==
  IF e.category \in {Field(cats[i], "id", "undefined") : i \in 1..Len(cats)}
     /\ NameText(LastWithId(cats, e.category)) # <<>>
  THEN NameText(LastWithId(cats, e.category))
  ELSE IdText(e.category)

headers ==
  << <<"C", "a", "t", "e", "g", "o", "r", "y">>,
     <<"D", "e", "s", "c", "r", "i", "p", "t", "i", "o", "n">>,
     <<"V", "e", "n", "d", "o", "r">>,
     <<"A", "m", "o", "u", "n", "t">>,
     <<"S", "t", "a", "t", "u", "s">>,
     <<"D", "a", "t", "e">> >>

\* the cells of the row of expense e
Row(e, cats) ==
  << CategoryCell(e, cats), e.description, e.vendor, ToFixed2(e.amount), IdText(e.status),
     IF Field(e, "date", <<>>) # <<>> THEN e.date ELSE <<>> >>

\* the text exportCSV(expenses, categories) puts into the file
CSV(es, cats) ==
  LET rows == <<headers>> \o [i \in 1..Len(es) |-> Row(es[i], cats)]
  IN Join([i \in 1..Len(rows) |-> Join([j \in 1..Len(rows[i]) |-> Cell(rows[i][j])], <<",">>)],
          <<"\n">>)

\* the CSV button of the header: exportCSV(expenses, categories)
exportCSV(c) ==
  /\ MainView(c)
  /\ download' = [download EXCEPT ![c] = CSV(expenses[c], categories[c])]
  /\ UNCHANGED <<storeVars, netVars, authVars, dataVars, viewVars, snapDue, listening, countVars,
                 seen, cascade, invited>>

\* ----------------------------------------------------------- Expenses tab
Uppers == <<"A", "B", "C", "D", "E", "F", "G", "H", "I", "J", "K", "L", "M",
            "N", "O", "P", "Q", "R", "S", "T", "U", "V", "W", "X", "Y", "Z">>
Lowers == <<"a", "b", "c", "d", "e", "f", "g", "h", "i", "j", "k", "l", "m",
            "n", "o", "p", "q", "r", "s", "t", "u", "v", "w", "x", "y", "z">>

\* s.toLowerCase()
ToLowerCase(s) ==
  [i \in 1..Len(s) |->
     IF \E j \in 1..Len(Uppers) : Uppers[j] = s[i]
     THEN Lowers[CHOOSE j \in 1..Len(Uppers) : Uppers[j] = s[i]]
     ELSE s[i]]

\* s.includes(q)
Includes(s, q) == \E i \in 0..(Len(s) - Len(q)) : SubSeq(s, i + 1, i + Len(q)) = q

filteredExpenses_DescriptionOnly(c) ==
  LET byCat == IF filterCat[c] # "all"
               THEN SelectSeq(expenses[c], LAMBDA e : e.category = filterCat[c])
               ELSE expenses[c]
      byStatus == IF filterStatus[c] # "all"
                  THEN SelectSeq(byCat, LAMBDA e : e.status = filterStatus[c])
                  ELSE byCat
      q == ToLowerCase(searchTerm[c])
      bySearch == IF searchTerm[c] # <<>>
                  THEN SelectSeq(byStatus, LAMBDA e : Includes(ToLowerCase(e.description), q))
                  ELSE byStatus
  IN SortByDate(bySearch)

\* the filteredExpenses memo: the rows of the Expenses tab
filteredExpenses(c) ==
  LET byCat == IF filterCat[c] # "all"
               THEN SelectSeq(expenses[c], LAMBDA e : e.category = filterCat[c])
               ELSE expenses[c]
      byStatus == IF filterStatus[c] # "all"
                  THEN SelectSeq(byCat, LAMBDA e : e.status = filterStatus[c])
                  ELSE byCat
      q == ToLowerCase(searchTerm[c])
      bySearch == IF searchTerm[c] # <<>>
                  THEN SelectSeq(byStatus, LAMBDA e :
                         \/ Includes(ToLowerCase(e.description), q)
                         \/ Includes(ToLowerCase(e.vendor), q))
                  ELSE byStatus
  IN SortByDate(bySearch)

\* what the search box and the two selects of the Expenses tab may be set to
SearchTerms == {<<>>, <<"b", "L">>, <<"o">>, <<"x">>}
CategoryFilters == {"all", "decoration", "venue"}
StatusFilters == {"all", "paid", "unpaid"}

\* the search box changes: setSearchTerm(e.target.value), and the render
setSearchTerm(c, q) ==
  /\ MainView(c)
  /\ searchTerm' = [searchTerm EXCEPT ![c] = q]
  /\ expenses' = [expenses EXCEPT ![c] = Rendered(@, filterCat[c], filterStatus[c], q)]
  /\ UNCHANGED <<storeVars, netVars, authVars, darkMode, totalBudget, categories, guests,
                 costPerGuest, vendors, members, dataLoaded, filterCat, filterStatus,
                 snapDue, listening, countVars, seen, cascade, download, invited>>

\* the category select changes: setFilterCat(e.target.value), and the render
setFilterCat(c, v) ==
  /\ MainView(c)
  /\ filterCat' = [filterCat EXCEPT ![c] = v]
  /\ expenses' = [expenses EXCEPT ![c] = Rendered(@, v, filterStatus[c], searchTerm[c])]
  /\ UNCHANGED <<storeVars, netVars, authVars, darkMode, totalBudget, categories, guests,
                 costPerGuest, vendors, members, dataLoaded, searchTerm, filterStatus,
                 snapDue, listening, countVars, seen, cascade, download, invited>>

\* the status select changes: setFilterStatus(e.target.value), and the render
setFilterStatus(c, v) ==
  /\ MainView(c)
  /\ filterStatus' = [filterStatus EXCEPT ![c] = v]
  /\ expenses' = [expenses EXCEPT ![c] = Rendered(@, filterCat[c], v, searchTerm[c])]
  /\ UNCHANGED <<storeVars, netVars, authVars, darkMode, totalBudget, categories, guests,
                 costPerGuest, vendors, members, dataLoaded, searchTerm, filterCat,
                 snapDue, listening, countVars, seen, cascade, download, invited>>

\* ------------------------------------------------- identity specification
NextAuth ==
  \/ \E c \in Clients : \E u \in AccountsOf(c) : SignIn(c, u)
  \/ \E c \in Clients : SignOut(c)
  \/ \E c \in Clients : \E r \in replies[c] : ResolveCallback(c, r)
  \/ \E c \in Clients : \E r \in replies[c] : InviteCallback(c, r)
  \/ \E c \in Clients, e \in InviteEmails : handleInvite(c, e)
  \/ \E c \in Clients : Serve(c)
  \/ \E c \in Clients : Snapshot(c)

SpecAuth == Init /\ [][NextAuth]_vars

\* ------------------------------------------ properties of the identity part
\* users/{u}.weddingId in the store (null when there is none)
StoredWedding(u) == Found(Snap(UserPath(u)))

Weddings == IF "weddings" \in DOMAIN db THEN db.weddings ELSE Null

\* the read, the callback and the writes of one effect (cb) of client c's
\* latest authentication are over
EffectDone(c, cb) ==
  /\ seen[c].sid # 0
  /\ IF cb = "resolve" THEN seen[c].profile # Unread ELSE seen[c].invite # Unread
  /\ \A i \in 1..Len(outbox[c]) : ~(outbox[c][i].sid = seen[c].sid /\ outbox[c][i].cb = cb)
  /\ \A r \in replies[c] : ~(r.sid = seen[c].sid /\ r.cb = cb)

\* every read, callback and write of client c's latest authentication is over
Done(c) == EffectDone(c, "resolve") /\ EffectDone(c, "invite")

Resolves(c) == ~EffectDone(c, "resolve") /\ EffectDone(c, "resolve")'

Completes(c) == ~Done(c) /\ Done(c)'

\* the .then callback of the reply r runs in this step
Handles(c, r) == r \in replies[c] /\ replies'[c] = replies[c] \ {r}

C1_Post(c) ==
  LET u == seen[c].u
      H == seen[c].had
  IN /\ ~Exists(db, InvitePath(Email(u)))
     /\ Exists(db, MemberPath(H, u))
     /\ Val(db, MemberPath(H, u)).role = "partner"
     /\ StoredWedding(u) = H

\* C1: when an Invite to household H is in the store for email E as the
\* owner of E signs in, then at the moment the last callback or write of that
\* authentication completes the Invite is gone, weddings/H/members/{uid} has role partner and
\* users/{uid}.weddingId is H, whatever the profile was and whichever callback
\* ran first.
C1_InviteAcceptance ==
  [][\A c \in Clients :
       (Completes(c) /\ seen'[c].had # NoWedding) => C1_Post(c)']_vars

DefaultIds == {"venue", "catering", "decoration", "photography", "outfit",
               "invitations", "music", "transport", "misc"}

C2_Post(c) ==
  LET u == seen[c].u
      own == {w \in DOMAIN Weddings : "owner" \in DOMAIN Weddings[w] /\ Weddings[w].owner = u}
  IN /\ Cardinality(own) = 1
     /\ \A w \in own :
          LET d == Weddings[w] IN
          /\ DOMAIN d = {"owner", "totalBudget", "costPerGuest", "darkMode",
                         "categories", "members"}
          /\ DOMAIN d.categories = DefaultIds
          /\ \A k \in DefaultIds : d.categories[k].id = k /\ d.categories[k].budget = 0
          /\ d.totalBudget = 30000 /\ d.costPerGuest = 75 /\ d.darkMode = FALSE
          /\ DOMAIN d.members = {u} /\ d.members[u].role = "owner"
          /\ StoredWedding(u) = w

\* C2: when the reads of an authentication found neither a profile nor an
\* Invite, then at the moment its resolution completes (the resolve callback
\* has run and its writes are applied) the store holds
\* exactly one Household owned by the user, with the nine default categories,
\* totalBudget 30000, costPerGuest 75, darkMode false and the user as its only
\* Member (role owner), and users/{uid}.weddingId names it.
C2_Bootstrap ==
  [][\A c \in Clients :
       (Resolves(c) /\ seen'[c].profile = NoWedding /\ seen'[c].had = NoWedding
          /\ seen'[c].invite = NoWedding)
         => C2_Post(c)']_vars

C2_Witness ==
  \E c \in Clients :
    /\ Done(c) /\ seen[c].profile = NoWedding /\ seen[c].invite = NoWedding
    /\ seen[c].had = NoWedding
    /\ StoredWedding(seen[c].u) # NoWedding
    /\ weddingId[c] = StoredWedding(seen[c].u)

\* C3: the callback of a profile read that found a weddingId, and the
\* callback of an invite read that found no Invite, queue no request and
\* change nothing in the store; the former sets the local weddingId to the
\* id it read; and signing in queues reads only.
C3_ReadPath ==
  [][\A c \in Clients :
       /\ \A r \in replies[c] :
            (Handles(c, r) /\ ((r.cb = "resolve" /\ r.snap.exists
                                  /\ "weddingId" \in DOMAIN r.snap.val)
                               \/ (r.cb = "invite" /\ ~r.snap.exists)))
              => /\ outbox' = outbox /\ db' = db /\ pushCount' = pushCount
                 /\ r.cb = "resolve" => weddingId'[c] = r.snap.val.weddingId
       /\ (user[c] = NoUser /\ user'[c] # NoUser)
              => /\ db' = db
                 /\ \A i \in 1..Len(outbox'[c]) :
                      i > Len(outbox[c]) => outbox'[c][i].op = "get"]_vars

C3_Witness ==
  \E c \in Clients :
    /\ seen[c].sid >= 2 /\ Done(c)
    /\ seen[c].profile \notin {NoWedding, Unread} /\ seen[c].invite = NoWedding
    /\ weddingId[c] = seen[c].profile
    /\ StoredWedding(seen[c].u) = seen[c].profile

\* C4: the resolve callback creates a Household only for an authentication
\* whose reads found neither a profile nor an Invite.
C4_BootstrapOnlyUninvited ==
  [][\A c \in Clients : \A r \in replies[c] :
       (Handles(c, r) /\ r.cb = "resolve" /\ pushCount'.weddings > pushCount.weddings)
         => /\ seen[c].sid = r.sid
            /\ seen[c].profile = NoWedding
            /\ seen[c].invite = NoWedding]_vars

\* a snapshot is delivered to client c in this step
Receives(c) == snapDue[c] /\ ~snapDue'[c] /\ weddingId'[c] = weddingId[c]

\* the members of household w in the store, as the snapshot handler lists them
StoreMembers(w) ==
  IF Exists(db, <<"weddings", w, "members">>)
  THEN Entries(Val(db, <<"weddings", w, "members">>), "uid")
  ELSE <<>>

\* C11: at every moment a client has at most one listener, on the household
\* its weddingId names and on none when weddingId is null; and a step that
\* changes its local members is the delivery of a snapshot of the household
\* its weddingId names, after which members lists that household's members.
C11_Lifecycle ==
  /\ [](\A c \in Clients : /\ Cardinality(listening[c]) <= 1
                           /\ listening[c] = {weddingId[c]} \ {NoWedding})
  /\ [][\A c \in Clients :
          members'[c] # members[c]
            => /\ Receives(c)
               /\ Exists(db, WeddingPath(weddingId[c]))
               /\ members'[c] = StoreMembers(weddingId[c])]_vars

\* u2, who created w2 and was subscribed to it, is now subscribed to w1 and
\* has received w1's snapshot with both members
C11_Witness ==
  \E c \in Clients :
    /\ user[c] = "u2" /\ weddingId[c] = "w1" /\ listening[c] = {"w1"} /\ ~snapDue[c]
    /\ Exists(db, MemberPath("w2", "u2"))
    /\ Len(members[c]) = 2 /\ members[c] = StoreMembers("w1")

\* the households user u has a Member record under
MemberOf(u) ==
  {w \in DOMAIN Weddings : "members" \in DOMAIN Weddings[w] /\ u \in DOMAIN Weddings[w].members}

\* no request is in flight and no callback is pending
Quiet == \A c \in Clients : outbox[c] = <<>> /\ replies[c] = {}

\* C15: whenever no request is in flight, each user has a Member record under
\* at most one household, and that household is the one users/{uid}.weddingId
\* names.
C15_OneHousehold ==
  Quiet => \A u \in Users :
             /\ Cardinality(MemberOf(u)) <= 1
             /\ \A w \in MemberOf(u) : StoredWedding(u) = w

\* ------------------------------------------------ household specification
RECURSIVE ApplyAll(_, _)
ApplyAll(t, ws) == IF ws = <<>> THEN t ELSE ApplyAll(ApplyWrite(t, Head(ws)), Tail(ws))

\* the store once u1 has created w1 and u2, who created w2 at the first
\* sign-in, has accepted u1's invite
InitDb ==
  ApplyAll(Null, BootstrapWrites("u1", "w1", 1) \o BootstrapWrites("u2", "w2", 1)
                   \o AcceptWrites("u2", "w1", 1))

\* both members are signed in, share w1 and have received its snapshot
InitData ==
  /\ db = InitDb
  /\ pushCount = [weddings |-> 2, expenses |-> 0, categories |-> 0, guests |-> 0,
                  vendors |-> 0]
  /\ outbox = [c \in Clients |-> <<>>]
  /\ replies = [c \in Clients |-> {}]
  /\ user = [c \in Clients |-> IF c = "c1" THEN "u1" ELSE "u2"]
  /\ authLoading = [c \in Clients |-> FALSE]
  /\ weddingId = [c \in Clients |-> "w1"]
  /\ darkMode = [c \in Clients |-> FALSE]
  /\ totalBudget = [c \in Clients |-> 30000]
  /\ categories = [c \in Clients |-> ObjectValues(InitDb.weddings.w1.categories)]
  /\ expenses = [c \in Clients |-> <<>>]
  /\ guests = [c \in Clients |-> <<>>]
  /\ costPerGuest = [c \in Clients |-> 75]
  /\ vendors = [c \in Clients |-> <<>>]
  /\ members = [c \in Clients |-> Entries(InitDb.weddings.w1.members, "uid")]
  /\ dataLoaded = [c \in Clients |-> TRUE]
  /\ searchTerm = [c \in Clients |-> <<>>]
  /\ filterCat = [c \in Clients |-> "all"]
  /\ filterStatus = [c \in Clients |-> "all"]
  /\ snapDue = [c \in Clients |-> FALSE]
  /\ listening = [c \in Clients |-> {"w1"}]
  /\ signIns = 2
  /\ invitesSent = 1
  /\ ops = 0
  /\ seen = [c \in Clients |->
        IF c = "c1" THEN [sid |-> 1, u |-> "u1", had |-> NoWedding, profile |-> NoWedding,
                          invite |-> NoWedding]
        ELSE [sid |-> 1, u |-> "u2", had |-> "w1", profile |-> NoWedding, invite |-> "w1"]]
  /\ cascade = [c \in Clients |-> NoCascade]
  /\ download = [c \in Clients |-> NoDownload]
  /\ invited = {Email("u2")}

\* the identity part reaches the state the household part starts in
InitDataUnreached == ~InitData

NextExpenses ==
  \/ ops < MaxOps /\ \E c \in Clients, text \in BudgetTexts : updateBudget(c, text)
  \/ ops < MaxOps /\ \E c \in Clients : \E form \in AddForms(c) :
       saveExpense(c, NoExpense, form)
  \/ ops < MaxOps /\ \E c \in Clients : \E i \in 1..Len(expenses[c]) :
       \E form \in EditForms(expenses[c][i]) : saveExpense(c, expenses[c][i].id, form)
  \/ ops < MaxOps /\ \E c \in Clients : \E i \in 1..Len(expenses[c]) :
       deleteExpense(c, expenses[c][i].id)
  \/ \E c \in Clients : Serve(c)
  \/ \E c \in Clients : Snapshot(c)

SpecExpenses == InitData /\ [][NextExpenses]_vars

\* --------------------------------------- properties of the household part
\* client c has received the snapshot of every change applied to its household
Delivered(c) == weddingId[c] # NoWedding /\ dataLoaded[c] /\ ~snapDue[c]

\* the sum of the amounts of the expenses with keys ks of the mapping m
RECURSIVE SumOf(_, _)
SumOf(m, ks) ==
  IF ks = {} THEN 0
  ELSE LET k == CHOOSE x \in ks : TRUE IN m[k].amount + SumOf(m, ks \ {k})

\* C6: when every snapshot of the changes applied so far has been delivered to
\* a client, its totalSpent is the sum of the amounts of the expenses in the
\* household's expense mapping, and its totalPaid the sum of the amounts of
\* those with status paid.
C6_TotalsConsistent ==
  \A c \in Clients :
    Delivered(c) =>
      LET m == StoreExpenses(db, weddingId[c]) IN
      /\ totalSpent(c) = SumOf(m, DOMAIN m)
      /\ totalPaid(c) = SumOf(m, {k \in DOMAIN m : m[k].status = "paid"})

\* an added expense was edited to paid, another one is unpaid, and one of the
\* three was added and deleted again or is still there
C6_Witness ==
  \E c \in Clients :
    /\ Delivered(c) /\ outbox = [x \in Clients |-> <<>>]
    /\ totalPaid(c) # 0 /\ totalSpent(c) # totalPaid(c)

\* C7: in the main view pct lies between 0 and 100.
C7_PctInRange ==
  \A c \in Clients :
    MainView(c) => pct(c).num >= 0 /\ pct(c).num <= 100 * pct(c).den

\* C8: in the main view, whenever totalSpent > totalBudget > 0 the warning
\* under the Budget Used bar reads "Over budget!" and the bar has the
\* over-budget colour.
C8_OverBudgetShown ==
  \A c \in Clients :
    (MainView(c) /\ totalSpent(c) > totalBudget[c] /\ totalBudget[c] > 0)
      => Warning(c) = "Over budget!" /\ BarColour(c) = "red"

\* ------------------------------------------------- category specification
NextCategories ==
  \/ ops < MaxCatOps /\ \E c \in Clients, name \in CategoryNames : addCategory(c, name)
  \/ ops < MaxCatOps /\ \E c \in Clients : \E form \in AddForms(c) :
       saveExpense(c, NoExpense, form)
  \/ ops < MaxCatOps /\ \E c \in Clients : \E id \in CategoryIds(c) : deleteCat(c, id)
  \/ ops < MaxCatOps /\ \E c \in Clients : \E id \in CardIds(c) \cap BudgetedIds :
       \E val \in CatBudgetTexts : setCatBudget(c, id, val)
  \/ \E c \in Clients : Serve(c)
  \/ \E c \in Clients : Snapshot(c)

SpecCategories == InitData /\ [][NextCategories]_vars

\* every write of client c's deleteCat has been applied
CascadeDone(c) == \A i \in 1..Len(outbox[c]) : outbox[c][i].cb # "deleteCat"

\* C5: at the moment the last write of a deleteCat(C) is applied, the
\* household's category mapping does not contain C, and every expense of
\* another member that was in the expense mapping with category C when the
\* delete was issued (and was not written again since) is gone from it or has
\* another category.
C5_Cascade ==
  [][\A c \in Clients :
       (~CascadeDone(c) /\ CascadeDone(c)')
         => LET C == cascade'[c].cat
                w == cascade'[c].wid
            IN /\ C \notin DOMAIN StoreCategories(db', w)
               /\ \A k \in cascade'[c].had :
                    k \in DOMAIN StoreExpenses(db', w)
                      => StoreExpenses(db', w)[k].category # C]_vars

\* ----------------------------------------------------- view specification
\* expenses the household may have entered
SampleExpenses ==
  { [category |-> "decoration", description |-> <<"R", "o">>, vendor |-> <<"B", "l", "o">>,
     amount |-> 2, status |-> "paid", date |-> <<"1">>, addedBy |-> Email("u1")],
    [category |-> "decoration", description |-> <<"H", "a">>, vendor |-> <<>>,
     amount |-> 1, status |-> "paid", date |-> <<"2">>, addedBy |-> Email("u2")],
    [category |-> "venue", description |-> <<"a", "B", "l">>, vendor |-> <<"l", "b">>,
     amount |-> 2, status |-> "unpaid", date |-> <<>>, addedBy |-> Email("u1")] }

\* the expense mappings of at most MaxExpenses of them, under the first keys
ExpenseMaps ==
  UNION { [{ExpenseKeys[i] : i \in 1..n} -> SampleExpenses] : n \in 0..MaxExpenses }

\* InitData with the expenses m saved, applied and delivered
InitView ==
  \E m \in ExpenseMaps :
    LET t == IF DOMAIN m = {} THEN InitDb
             ELSE SetAt(InitDb, <<"weddings", "w1", "expenses">>, m)
    IN
    /\ db = t
    /\ pushCount = [weddings |-> 2, expenses |-> Cardinality(DOMAIN m), categories |-> 0,
                    guests |-> 0, vendors |-> 0]
    /\ outbox = [c \in Clients |-> <<>>]
    /\ replies = [c \in Clients |-> {}]
    /\ user = [c \in Clients |-> IF c = "c1" THEN "u1" ELSE "u2"]
    /\ authLoading = [c \in Clients |-> FALSE]
    /\ weddingId = [c \in Clients |-> "w1"]
    /\ darkMode = [c \in Clients |-> FALSE]
    /\ totalBudget = [c \in Clients |-> 30000]
    /\ categories = [c \in Clients |-> ObjectValues(InitDb.weddings.w1.categories)]
    /\ expenses = [c \in Clients |-> Rendered(Entries(m, "id"), "all", "all", <<>>)]
    /\ guests = [c \in Clients |-> <<>>]
    /\ costPerGuest = [c \in Clients |-> 75]
    /\ vendors = [c \in Clients |-> <<>>]
    /\ members = [c \in Clients |-> Entries(InitDb.weddings.w1.members, "uid")]
    /\ dataLoaded = [c \in Clients |-> TRUE]
    /\ searchTerm = [c \in Clients |-> <<>>]
    /\ filterCat = [c \in Clients |-> "all"]
    /\ filterStatus = [c \in Clients |-> "all"]
    /\ snapDue = [c \in Clients |-> FALSE]
    /\ listening = [c \in Clients |-> {"w1"}]
    /\ signIns = 2
    /\ invitesSent = 1
    /\ ops = Cardinality(DOMAIN m)
    /\ seen = [c \in Clients |->
          IF c = "c1" THEN [sid |-> 1, u |-> "u1", had |-> NoWedding, profile |-> NoWedding,
                            invite |-> NoWedding]
          ELSE [sid |-> 1, u |-> "u2", had |-> "w1", profile |-> NoWedding, invite |-> "w1"]]
    /\ cascade = [c \in Clients |-> NoCascade]
    /\ download = [c \in Clients |-> NoDownload]
    /\ invited = {Email("u2")}

NextView ==
  \/ \E c \in Clients, q \in SearchTerms : setSearchTerm(c, q)
  \/ \E c \in Clients, v \in CategoryFilters : setFilterCat(c, v)
  \/ \E c \in Clients, v \in StatusFilters : setFilterStatus(c, v)

SpecView == InitView /\ [][NextView]_vars

\* q is s[i+1..j] for some i <= j
IsSubstring(q, s) == \E i \in 0..Len(s) : \E j \in i..Len(s) : SubSeq(s, i + 1, j) = q

\* the expense e passes the three filters of client c
Passes(c, e) ==
  /\ filterCat[c] = "all" \/ e.category = filterCat[c]
  /\ filterStatus[c] = "all" \/ e.status = filterStatus[c]
  /\ \/ searchTerm[c] = <<>>
     \/ IsSubstring(ToLowerCase(searchTerm[c]), ToLowerCase(e.description))
     \/ IsSubstring(ToLowerCase(searchTerm[c]), ToLowerCase(e.vendor))

\* how often e occurs in list
Count(list, e) == Cardinality({i \in 1..Len(list) : list[i] = e})

\* C9: filteredExpenses holds every expense that passes the category filter,
\* the status filter and the case-insensitive search in description or
\* vendor exactly once, and nothing else.
C9_FilterComposition ==
  \A c \in Clients :
    /\ \A i \in 1..Len(expenses[c]) :
         Count(filteredExpenses(c), expenses[c][i]) =
           IF Passes(c, expenses[c][i]) THEN 1 ELSE 0
    /\ \A j \in 1..Len(filteredExpenses(c)) : Count(expenses[c], filteredExpenses(c)[j]) = 1

\* the three filters are set, and of two expenses one passes them, by a
\* vendor that matches the search term in another case
C9_Witness ==
  \E c \in Clients :
    /\ filterCat[c] = "decoration" /\ filterStatus[c] = "paid" /\ searchTerm[c] = <<"b", "L">>
    /\ Len(expenses[c]) = 2 /\ Len(filteredExpenses(c)) = 1
    /\ ~IsSubstring(<<"b", "l">>, ToLowerCase(filteredExpenses(c)[1].description))

\* ----------------------------------------------------- sync specification
NextSync ==
  \/ ops < MaxSyncOps /\ \E c \in Clients, text \in BudgetTexts : updateBudget(c, text)
  \/ ops < MaxSyncOps /\ \E c \in Clients, text \in CostTexts : updateCostPerGuest(c, text)
  \/ ops < MaxSyncOps /\ \E c \in Clients : \E form \in AddForms(c) :
       saveExpense(c, NoExpense, form)
  \/ ops < MaxSyncOps /\ \E c \in Clients : \E i \in 1..Len(expenses[c]) :
       deleteExpense(c, expenses[c][i].id)
  \/ ops < MaxSyncOps /\ \E c \in Clients, name \in CategoryNames : addCategory(c, name)
  \/ ops < MaxSyncOps /\ \E c \in Clients : \E id \in CategoryIds(c) \cap BudgetedIds :
       \E val \in CatBudgetTexts : setCatBudget(c, id, val)
  \/ ops < MaxSyncOps /\ \E c \in Clients : \E id \in CategoryIds(c) : deleteCat(c, id)
  \/ ops < MaxSyncOps /\ \E c \in Clients, name \in GuestNames : addGuest(c, name, "pending")
  \/ ops < MaxSyncOps /\ \E c \in Clients : \E i \in 1..Len(guests[c]) :
       updateGuest(c, guests[c][i].id, "confirmed")
  \/ ops < MaxSyncOps /\ \E c \in Clients : \E i \in 1..Len(guests[c]) :
       removeGuest(c, guests[c][i].id)
  \/ ops < MaxSyncOps /\ \E c \in Clients, form \in VendorForms : addVendor(c, form)
  \/ ops < MaxSyncOps /\ \E c \in Clients : \E i \in 1..Len(vendors[c]) :
       removeVendor(c, vendors[c][i].id)
  \/ \E c \in Clients : Serve(c)
  \/ \E c \in Clients : Snapshot(c)

\* the connections deliver: as long as a request is unserved or a snapshot is
\* due, one of them is served or arrives
Deliver == \E c \in Clients : Serve(c) \/ Snapshot(c)

SpecSync == InitData /\ [][NextSync]_vars /\ WF_vars(Deliver)

\* the elements of a list
Range(list) == {list[i] : i \in 1..Len(list)}

\* the collection f of the household document d (nothing when it has none)
Collection(d, f) == IF f \in DOMAIN d THEN d[f] ELSE Null

\* list holds the entries of the mapping m, each once, with the key as name
HoldsEntries(list, m, name) ==
  /\ Len(list) = Cardinality(DOMAIN m)
  /\ Range(list) = {m[k] @@ (name :> k) : k \in DOMAIN m}

\* the local state of client c is the content of its household's document
Synced(c) ==
  /\ Exists(db, WeddingPath(weddingId[c]))
  /\ LET d == Val(db, WeddingPath(weddingId[c])) IN
     /\ "totalBudget" \in DOMAIN d /\ totalBudget[c] = d.totalBudget
     /\ "costPerGuest" \in DOMAIN d /\ costPerGuest[c] = d.costPerGuest
     /\ Len(categories[c]) = Cardinality(DOMAIN Collection(d, "categories"))
     /\ Range(categories[c]) =
          {Collection(d, "categories")[k] : k \in DOMAIN Collection(d, "categories")}
     /\ HoldsEntries(expenses[c], Collection(d, "expenses"), "id")
     /\ HoldsEntries(guests[c], Collection(d, "guests"), "id")
     /\ HoldsEntries(vendors[c], Collection(d, "vendors"), "id")
     /\ HoldsEntries(members[c], Collection(d, "members"), "uid")

\* C10: once the two members issue no more writes, there comes a moment from
\* which on the local totalBudget, costPerGuest, categories, expenses, guests,
\* vendors and members of both equal the content of the household's document.
C10_Converges == <>[](\A c \in Clients : Synced(c))

\* both members have written, every write is applied, and both are in sync
C10_Witness ==
  /\ \A c \in Clients : Synced(c) /\ outbox[c] = <<>> /\ ~snapDue[c]
  /\ \A c \in Clients : \E u \in Users : user[c] = u /\ weddingId[c] = "w1"
  /\ ops >= 2 /\ db # InitDb
  /\ totalBudget["c1"] # 30000

\* ------------------------------------------- shared browser specification
\* the browser two accounts are used on, one after the other
SharedBrowser == {"c1"}

\* what u1 entered into w1: a category, an expense, a guest and a vendor
SharedWrites ==
  << [op |-> "set", path |-> <<"weddings", "w1", "categories", "cake-1">>,
      val |-> [id |-> "cake-1", name |-> <<"C", "a", "k", "e">>, icon |-> "pin", budget |-> 0]],
     [op |-> "set", path |-> <<"weddings", "w1", "expenses", "e1">>,
      val |-> [category |-> "cake-1", description |-> <<"R">>, vendor |-> <<>>, amount |-> 2,
               status |-> "unpaid", date |-> Today, addedBy |-> Email("u1")]],
     [op |-> "set", path |-> <<"weddings", "w1", "guests", "g1">>,
      val |-> [name |-> <<"G">>, rsvp |-> "pending"]],
     [op |-> "set", path |-> <<"weddings", "w1", "vendors", "v1">>,
      val |-> [name |-> <<"V">>, category |-> <<>>, phone |-> <<>>, email |-> <<>>,
               notes |-> <<>>]] >>

\* the operations u1 ran to enter them
SharedOps == Len(SharedWrites)

\* the store once u1 has created w1 and entered them; u2 has not signed in yet
SharedDb == ApplyAll(Null, BootstrapWrites("u1", "w1", 1) \o SharedWrites)

\* u1 has used the browser c1, received all of w1 and signed out: the React
\* state still holds w1's data; the browser c2 has not been used
InitShared ==
  /\ db = SharedDb
  /\ pushCount = [weddings |-> 1, expenses |-> 1, categories |-> 1, guests |-> 1,
                  vendors |-> 1]
  /\ outbox = [c \in Clients |-> <<>>]
  /\ replies = [c \in Clients |-> {}]
  /\ user = [c \in Clients |-> NoUser]
  /\ authLoading = [c \in Clients |-> c \notin SharedBrowser]
  /\ weddingId = [c \in Clients |-> NoWedding]
  /\ darkMode = [c \in Clients |-> FALSE]
  /\ totalBudget = [c \in Clients |-> 30000]
  /\ categories = [c \in Clients |->
        IF c \in SharedBrowser THEN ObjectValues(SharedDb.weddings.w1.categories)
        ELSE DEFAULT_CATEGORIES]
  /\ expenses = [c \in Clients |->
        IF c \in SharedBrowser THEN Entries(SharedDb.weddings.w1.expenses, "id") ELSE <<>>]
  /\ guests = [c \in Clients |->
        IF c \in SharedBrowser THEN Entries(SharedDb.weddings.w1.guests, "id") ELSE <<>>]
  /\ costPerGuest = [c \in Clients |-> 75]
  /\ vendors = [c \in Clients |->
        IF c \in SharedBrowser THEN Entries(SharedDb.weddings.w1.vendors, "id") ELSE <<>>]
  /\ members = [c \in Clients |->
        IF c \in SharedBrowser THEN Entries(SharedDb.weddings.w1.members, "uid") ELSE <<>>]
  /\ dataLoaded = [c \in Clients |-> c \in SharedBrowser]
  /\ searchTerm = [c \in Clients |-> <<>>]
  /\ filterCat = [c \in Clients |-> "all"]
  /\ filterStatus = [c \in Clients |-> "all"]
  /\ snapDue = [c \in Clients |-> FALSE]
  /\ listening = [c \in Clients |-> {}]
  /\ signIns = 1
  /\ invitesSent = 0
  /\ ops = SharedOps
  /\ seen = [c \in Clients |->
        IF c \in SharedBrowser
        THEN [sid |-> 1, u |-> "u1", had |-> NoWedding, profile |-> NoWedding,
              invite |-> NoWedding]
        ELSE [sid |-> 0, u |-> NoUser, had |-> NoWedding, profile |-> Unread,
              invite |-> Unread]]
  /\ cascade = [c \in Clients |-> NoCascade]
  /\ download = [c \in Clients |-> NoDownload]
  /\ invited = {}

\* the operations of this part have not been used up
SharedRoom == ops < SharedOps + MaxSharedOps

\* the next account signs in on the shared browser and uses the main view
NextShared ==
  \/ \E c \in SharedBrowser, u \in Users : SignIn(c, u)
  \/ \E c \in SharedBrowser : \E r \in replies[c] : ResolveCallback(c, r)
  \/ \E c \in SharedBrowser : \E r \in replies[c] : InviteCallback(c, r)
  \/ SharedRoom /\ \E c \in SharedBrowser, text \in BudgetTexts : updateBudget(c, text)
  \/ SharedRoom /\ \E c \in SharedBrowser, text \in CostTexts :
       updateCostPerGuest(c, text)
  \/ SharedRoom /\ \E c \in SharedBrowser : toggleDarkMode(c)
  \/ SharedRoom /\ \E c \in SharedBrowser : \E form \in AddForms(c) :
       saveExpense(c, NoExpense, form)
  \/ SharedRoom /\ \E c \in SharedBrowser : \E i \in 1..Len(expenses[c]) :
       deleteExpense(c, expenses[c][i].id)
  \/ SharedRoom /\ \E c \in SharedBrowser, name \in CategoryNames :
       addCategory(c, name)
  \/ SharedRoom /\ \E c \in SharedBrowser : \E id \in CategoryIds(c) \cap BudgetedIds :
       \E val \in CatBudgetTexts : setCatBudget(c, id, val)
  \/ SharedRoom /\ \E c \in SharedBrowser : \E id \in CategoryIds(c) : deleteCat(c, id)
  \/ SharedRoom /\ \E c \in SharedBrowser, name \in GuestNames :
       addGuest(c, name, "pending")
  \/ SharedRoom /\ \E c \in SharedBrowser : \E i \in 1..Len(guests[c]) :
       updateGuest(c, guests[c][i].id, "confirmed")
  \/ SharedRoom /\ \E c \in SharedBrowser : \E i \in 1..Len(guests[c]) :
       removeGuest(c, guests[c][i].id)
  \/ SharedRoom /\ \E c \in SharedBrowser, form \in VendorForms : addVendor(c, form)
  \/ SharedRoom /\ \E c \in SharedBrowser : \E i \in 1..Len(vendors[c]) :
       removeVendor(c, vendors[c][i].id)
  \/ \E c \in SharedBrowser : Serve(c)
  \/ \E c \in SharedBrowser : Snapshot(c)

SpecShared == InitShared /\ [][NextShared]_vars

\* the second account signs in on the shared browser while the store's rules
\* may reject writes
NextRejecting ==
  \/ \E c \in SharedBrowser, u \in Users : SignIn(c, u)
  \/ \E c \in SharedBrowser : SignOut(c)
  \/ \E c \in SharedBrowser : \E r \in replies[c] : ResolveCallback(c, r)
  \/ \E c \in SharedBrowser : \E r \in replies[c] : InviteCallback(c, r)
  \/ \E c \in SharedBrowser : Serve(c)
  \/ \E c \in SharedBrowser : Reject(c)
  \/ \E c \in SharedBrowser : Snapshot(c)

SpecRejecting == InitShared /\ [][NextRejecting]_vars

\* ------------------------------------ properties of the shared browser part
\* client c runs one of the actions built on dbSet, dbPush, dbRemove, dbUpdate
Mutates(c) == MainView(c) /\ ops' # ops

\* C12: a step in which an action built on dbSet, dbPush, dbRemove or dbUpdate
\* runs while the client's weddingId is null sends no request and leaves the
\* store as it is.
C12_WriteGuards ==
  [][\A c \in SharedBrowser :
       (Mutates(c) /\ weddingId[c] = NoWedding) => outbox' = outbox /\ db' = db]_vars

\* an action has run in the main view between the sign-in on the used browser
\* and the resolution of the household, and no write is in flight
C12_Witness ==
  \E c \in SharedBrowser :
    /\ seen[c].sid = 2 /\ user[c] # NoUser /\ weddingId[c] = NoWedding /\ ops > SharedOps
    /\ \A i \in 1..Len(outbox[c]) : outbox[c][i].op = "get"
    /\ db = SharedDb

\* no write of client c to the household it listens to is in flight
Settled(c) ==
  \A i \in 1..Len(outbox[c]) :
    outbox[c][i].op = "get" \/ \A w \in listening[c] : ~Touches(outbox[c][i].path, w)

\* C13: when a snapshot is delivered to a client none of whose writes to the
\* household is in flight, and the household does not exist in the store, the
\* local expenses, guests, vendors and members are empty afterwards; when it
\* exists without a categories mapping, the local categories are empty
\* afterwards.
C13_MissingSnapshot ==
  [][\A c \in SharedBrowser :
       (Receives(c) /\ Settled(c))
         => IF ~Exists(db, WeddingPath(weddingId[c]))
            THEN /\ expenses'[c] = <<>> /\ guests'[c] = <<>>
                 /\ vendors'[c] = <<>> /\ members'[c] = <<>>
            ELSE "categories" \notin DOMAIN Val(db, WeddingPath(weddingId[c]))
                   => categories'[c] = <<>>]_vars

\* C20: a step in which updateBudget, updateCostPerGuest or toggleDarkMode
\* runs while the write is skipped (weddingId is null) leaves the local
\* totalBudget, costPerGuest and darkMode as the last snapshot set them.
C20_OnlySnapshots ==
  [][\A c \in SharedBrowser :
       (Mutates(c) /\ weddingId[c] = NoWedding)
         => /\ totalBudget'[c] = totalBudget[c]
            /\ costPerGuest'[c] = costPerGuest[c]
            /\ darkMode'[c] = darkMode[c]]_vars

\* ------------------------------ properties of the household part, continued
\* the attributes of an expense that the expense modal edits
ExpenseFields == {"category", "description", "vendor", "amount", "status", "date"}

\* the attributes in which the expense records x and y differ
Differing(x, y) == {f \in ExpenseFields : (f \in DOMAIN x) # (f \in DOMAIN y)
                                          \/ (f \in DOMAIN x /\ x[f] # y[f])}

\* the store applies the write at the head of client c's queue, which is the
\* save of an edit of the expense k
ServesEdit(c, k) ==
  /\ outbox[c] # <<>> /\ outbox'[c] = Tail(outbox[c]) /\ db' # db
  /\ Head(outbox[c]).cb = "saveExpense" /\ Head(outbox[c]).op = "set"
  /\ Head(outbox[c]).path = WeddingPath(weddingId[c]) \o <<"expenses", k>>
  /\ k \in DOMAIN StoreExpenses(db, weddingId[c])

\* C16: when the save of a member's edit of an expense is applied, and the
\* edit changes attributes B of the record the member sees, while the stored
\* record differs from what the member sees in other attributes A (changes by
\* another member, who saved the record last, that the first has not
\* received), then the stored record afterwards has the member's values in B
\* and keeps the other member's in A.
C16_DisjointEdits ==
  [][\A c \in Clients : \A k \in {ExpenseKeys[n] : n \in 1..Len(ExpenseKeys)} :
       \A i \in 1..Len(expenses[c]) :
         (ServesEdit(c, k) /\ expenses[c][i].id = k) =>
           LET local == expenses[c][i]
               stored == StoreExpenses(db, weddingId[c])[k]
               entry == Head(outbox[c]).val
               A == Differing(stored, local)
               B == Differing(entry, local)
           IN (stored.addedBy # Email(user[c]) /\ A # {} /\ B # {} /\ A \cap B = {}) =>
                /\ k \in DOMAIN StoreExpenses(db', weddingId[c])
                /\ \A f \in B : StoreExpenses(db', weddingId[c])[k][f] = entry[f]
                /\ \A f \in A : StoreExpenses(db', weddingId[c])[k][f] = stored[f]]_vars

\* C18: whatever the filters are, a client that has received the snapshot of
\* every change holds the expenses in the order of that snapshot: the order of
\* the keys of the household's expense mapping.
C18_SourceOrder ==
  \A c \in Clients :
    Delivered(c) => expenses[c] = Entries(StoreExpenses(db, weddingId[c]), "id")

\* --------------------------------------------------- export specification
\* expenses the household may have entered, with quotes and commas in them
ExportSamples ==
  { [category |-> "cake-1", description |-> <<"a", "\"", ",", "b">>, vendor |-> <<",">>,
     amount |-> 2, status |-> "paid", date |-> <<"1">>, addedBy |-> Email("u1")],
    [category |-> "venue", description |-> <<"\"">>, vendor |-> <<>>,
     amount |-> -1, status |-> "unpaid", date |-> <<>>, addedBy |-> Email("u2")],
    [category |-> "cake-1", description |-> <<"R">>, vendor |-> <<"\"", "\"", "x">>,
     amount |-> 10, status |-> "unpaid", date |-> <<"2">>, addedBy |-> Email("u1")] }

\* the expense mappings of at most MaxExpenses of them, under the first keys
ExportMaps ==
  UNION { [{ExpenseKeys[i] : i \in 1..n} -> ExportSamples] : n \in 0..MaxExpenses }

\* the category cake-1 as addCategory stored it
Cake == [id |-> "cake-1", name |-> <<"C", "a", "k", "e">>, icon |-> "pin", budget |-> 0]

\* InitData with the category cake-1 added, the expenses m saved and, when
\* kept is false, cake-1 deleted by the member who had not received them; all
\* of it applied and delivered
InitExport ==
  \E m \in ExportMaps, kept \in BOOLEAN :
    LET t1 == IF DOMAIN m = {} THEN InitDb
              ELSE SetAt(InitDb, <<"weddings", "w1", "expenses">>, m)
        t == IF kept THEN SetAt(t1, <<"weddings", "w1", "categories", "cake-1">>, Cake)
             ELSE t1
    IN
    /\ db = t
    /\ pushCount = [weddings |-> 2, expenses |-> Cardinality(DOMAIN m), categories |-> 1,
                    guests |-> 0, vendors |-> 0]
    /\ outbox = [c \in Clients |-> <<>>]
    /\ replies = [c \in Clients |-> {}]
    /\ user = [c \in Clients |-> IF c = "c1" THEN "u1" ELSE "u2"]
    /\ authLoading = [c \in Clients |-> FALSE]
    /\ weddingId = [c \in Clients |-> "w1"]
    /\ darkMode = [c \in Clients |-> FALSE]
    /\ totalBudget = [c \in Clients |-> 30000]
    /\ categories = [c \in Clients |-> ObjectValues(t.weddings.w1.categories)]
    /\ expenses = [c \in Clients |-> Rendered(Entries(m, "id"), "all", "all", <<>>)]
    /\ guests = [c \in Clients |-> <<>>]
    /\ costPerGuest = [c \in Clients |-> 75]
    /\ vendors = [c \in Clients |-> <<>>]
    /\ members = [c \in Clients |-> Entries(InitDb.weddings.w1.members, "uid")]
    /\ dataLoaded = [c \in Clients |-> TRUE]
    /\ searchTerm = [c \in Clients |-> <<>>]
    /\ filterCat = [c \in Clients |-> "all"]
    /\ filterStatus = [c \in Clients |-> "all"]
    /\ snapDue = [c \in Clients |-> FALSE]
    /\ listening = [c \in Clients |-> {"w1"}]
    /\ signIns = 2
    /\ invitesSent = 1
    /\ ops = 1 + Cardinality(DOMAIN m) + (IF kept THEN 0 ELSE 1)
    /\ seen = [c \in Clients |->
          IF c = "c1" THEN [sid |-> 1, u |-> "u1", had |-> NoWedding, profile |-> NoWedding,
                            invite |-> NoWedding]
          ELSE [sid |-> 1, u |-> "u2", had |-> "w1", profile |-> NoWedding, invite |-> "w1"]]
    /\ cascade = [c \in Clients |-> NoCascade]
    /\ download = [c \in Clients |-> NoDownload]
    /\ invited = {Email("u2")}

NextExport ==
  \/ \E c \in Clients : exportCSV(c)
  \/ \E c \in Clients, v \in StatusFilters : setFilterStatus(c, v)

SpecExport == InitExport /\ [][NextExport]_vars

\* ------------------------------------------- properties of the export part
\* reading a CSV text: fields are separated by commas and rows by line feeds;
\* a field in double quotes ends at the closing quote, and two double quotes
\* inside it stand for one. A comma or line feed separates when the double
\* quotes before it are even in number.
IsQuote(ch) == ch = "\""

QuotesUpTo(t, i) == Cardinality({j \in 1..i : IsQuote(t[j])})

\* the pieces of t between the separators ch that are outside quotes
Split(t, ch) ==
  LET cuts == {i \in 1..Len(t) : t[i] = ch /\ QuotesUpTo(t, i) % 2 = 0}
      cut(k) == IF k = 0 THEN 0
                ELSE IF k > Cardinality(cuts) THEN Len(t) + 1
                ELSE CHOOSE i \in cuts : Cardinality({j \in cuts : j < i}) = k - 1
  IN [k \in 1..(Cardinality(cuts) + 1) |-> SubSeq(t, cut(k - 1) + 1, cut(k) - 1)]

\* the value of a field: without its enclosing quotes, and with one double
\* quote for every two inside
Unquote(f) ==
  IF Len(f) < 2 \/ ~IsQuote(f[1]) \/ ~IsQuote(f[Len(f)]) THEN f
  ELSE LET s == SubSeq(f, 2, Len(f) - 1)
           kept == {i \in 1..Len(s) : ~(IsQuote(s[i]) /\ QuotesUpTo(s, i) % 2 = 1)}
       IN [k \in 1..Cardinality(kept) |->
             s[CHOOSE i \in kept : Cardinality({j \in kept : j < i}) = k - 1]]

ParseCSV(t) ==
  IF t = <<>> THEN <<>>
  ELSE LET lines == Split(t, "\n")
       IN [r \in 1..Len(lines) |->
             LET fs == Split(lines[r], ",") IN [k \in 1..Len(fs) |-> Unquote(fs[k])]]

\* the text s is a number with two decimals
TwoDecimals(s) ==
  LET body == IF s # <<>> /\ Head(s) = "-" THEN Tail(s) ELSE s
  IN /\ Len(body) >= 4 /\ body[Len(body) - 2] = "."
     /\ \A i \in (1..Len(body)) \ {Len(body) - 2} : \E j \in 1..Len(Digits) : Digits[j] = body[i]

\* the number the text s stands for, in hundredths
Hundredths(s) ==
  LET neg == s # <<>> /\ Head(s) = "-"
      body == IF neg THEN Tail(s) ELSE s
      n == 100 * ParseDigits(SubSeq(body, 1, Len(body) - 3))
           + ParseDigits(SubSeq(body, Len(body) - 1, Len(body)))
  IN IF neg THEN 0 - n ELSE n

\* the display name of the category of e, its raw id when no category has it
CategoryLabel(e, cats) ==
  IF \E i \in 1..Len(cats) : "id" \in DOMAIN cats[i] /\ cats[i].id = e.category
  THEN NameText(cats[CHOOSE i \in 1..Len(cats) :
                       "id" \in DOMAIN cats[i] /\ cats[i].id = e.category])
  ELSE IdText(e.category)

\* the fields read back are those of the expense e
RowOf(fields, e, cats) ==
  /\ Len(fields) = 6
  /\ fields[1] = CategoryLabel(e, cats)
  /\ fields[2] = e.description
  /\ fields[3] = e.vendor
  /\ TwoDecimals(fields[4]) /\ Hundredths(fields[4]) = 100 * e.amount
  /\ fields[5] = IdText(e.status)
  /\ fields[6] = Field(e, "date", <<>>)

\* the rows read back are the header row and one row per expense, in order
RoundTrip(text, es, cats) ==
  LET rows == ParseCSV(text) IN
  /\ Len(rows) = Len(es) + 1
  /\ rows[1] = headers
  /\ \A i \in 1..Len(es) : RowOf(rows[i + 1], es[i], cats)

HoldsRecords(list, m) ==
  /\ Len(list) = Cardinality(DOMAIN m)
  /\ \A i \in 1..Len(list) :
       /\ "id" \in DOMAIN list[i]
       /\ list[i].id \in DOMAIN m
       /\ \A f \in DOMAIN m[list[i].id] : f # "id" => list[i][f] = m[list[i].id][f]
  /\ \A k \in DOMAIN m : \E i \in 1..Len(list) : list[i].id = k

\* C14: when every snapshot of the changes applied so far has been delivered to
\* a client, each of its local categories, expenses, guests and vendors carries
\* an id that is the key of the record in the household's mapping, and the
\* local collection has exactly one record per key.
C14_Normalized ==
  \A c \in Clients :
    Delivered(c) =>
      LET d == Val(db, WeddingPath(weddingId[c])) IN
      /\ HoldsRecords(categories[c], Collection(d, "categories"))
      /\ HoldsRecords(expenses[c], Collection(d, "expenses"))
      /\ HoldsRecords(guests[c], Collection(d, "guests"))
      /\ HoldsRecords(vendors[c], Collection(d, "vendors"))

\* the sum of the amounts of the elements of list at the positions in S
RECURSIVE SumAt(_, _)
SumAt(list, S) ==
  IF S = {} THEN 0
  ELSE LET i == CHOOSE x \in S : TRUE IN list[i].amount + SumAt(list, S \ {i})

\* the sum of the spent of the entries of catSpending with ids in S
RECURSIVE SumSpent(_, _)
SumSpent(cs, S) ==
  IF S = {} THEN 0
  ELSE LET id == CHOOSE x \in S : TRUE IN cs[id].spent + SumSpent(cs, S \ {id})

ResolvePending(c) ==
  \/ \E i \in 1..Len(outbox[c]) :
       outbox[c][i].op = "get" /\ outbox[c][i].cb = "resolve" /\ outbox[c][i].sid = seen[c].sid
  \/ \E r \in replies[c] : r.cb = "resolve" /\ r.sid = seen[c].sid

\* C21: while a user is signed in on a client, the profile read of that
\* authentication has not completed and its invite read has found no Invite,
\* the local household id is null and the main view is not rendered.
C21_LoadingUntilResolved ==
  \A c \in Clients :
    (user[c] # NoUser /\ ResolvePending(c) /\ seen[c].invite \in {Unread, NoWedding})
      => weddingId[c] = NoWedding /\ ~MainView(c)

\* C24: a client with no user signed in has a null household id and no
\* subscription open.
C24_NoBindingWithoutUser ==
  \A c \in Clients : user[c] = NoUser => weddingId[c] = NoWedding /\ listening[c] = {}

\* C25: whenever the main view is rendered on a client bound to a household,
\* every member it lists is a member of that household in the store.
C25_OwnHousehold ==
  \A c \in Clients :
    (MainView(c) /\ weddingId[c] # NoWedding) =>
      \A i \in 1..Len(members[c]) : Exists(db, MemberPath(weddingId[c], members[c][i].uid))

\* C26: when a user is signed in on a client and every read, callback and
\* write of the client is over, the local household id is the one
\* users/{uid}.weddingId names.
C26_BindingAgrees ==
  \A c \in Clients :
    (user[c] # NoUser /\ outbox[c] = <<>> /\ replies[c] = {})
      => weddingId[c] = StoredWedding(user[c])

\* C27: whenever users/{uid} names a household, the store holds a Member
\* record for uid under that household.
C27_ProfileJoined ==
  \A u \in Users :
    StoredWedding(u) # NoWedding => Exists(db, MemberPath(StoredWedding(u), u))

\* ------------------------------------------- returning user specification
\* the store once u1 has created w1 and u2 has created w2
ReturningDb == ApplyAll(Null, BootstrapWrites("u1", "w1", 1) \o BootstrapWrites("u2", "w2", 1))

\* u1 is signed in and has received w1; u2 has signed in, received w2 and
\* signed out again
Returning ==
  /\ db = ReturningDb
  /\ pushCount = [weddings |-> 2, expenses |-> 0, categories |-> 0, guests |-> 0,
                  vendors |-> 0]
  /\ outbox = [c \in Clients |-> <<>>]
  /\ replies = [c \in Clients |-> {}]
  /\ user = [c \in Clients |-> IF c = "c1" THEN "u1" ELSE NoUser]
  /\ authLoading = [c \in Clients |-> FALSE]
  /\ weddingId = [c \in Clients |-> IF c = "c1" THEN "w1" ELSE NoWedding]
  /\ darkMode = [c \in Clients |-> FALSE]
  /\ totalBudget = [c \in Clients |-> 30000]
  /\ categories = [c \in Clients |-> ObjectValues(ReturningDb.weddings.w1.categories)]
  /\ expenses = [c \in Clients |-> <<>>]
  /\ guests = [c \in Clients |-> <<>>]
  /\ costPerGuest = [c \in Clients |-> 75]
  /\ vendors = [c \in Clients |-> <<>>]
  /\ members = [c \in Clients |->
        Entries(ReturningDb.weddings[IF c = "c1" THEN "w1" ELSE "w2"].members, "uid")]
  /\ dataLoaded = [c \in Clients |-> TRUE]
  /\ searchTerm = [c \in Clients |-> <<>>]
  /\ filterCat = [c \in Clients |-> "all"]
  /\ filterStatus = [c \in Clients |-> "all"]
  /\ snapDue = [c \in Clients |-> FALSE]
  /\ listening = [c \in Clients |-> IF c = "c1" THEN {"w1"} ELSE {}]
  /\ seen = [c \in Clients |->
        [sid |-> 1, u |-> IF c = "c1" THEN "u1" ELSE "u2", had |-> NoWedding,
         profile |-> NoWedding, invite |-> NoWedding]]
  /\ cascade = [c \in Clients |-> NoCascade]
  /\ download = [c \in Clients |-> NoDownload]
  /\ invited = {}

\* the identity part reaches the state the returning user part starts in
ReturningUnreached == ~(Returning /\ signIns = 2 /\ invitesSent = 0 /\ ops = 0)

\* the run starts there; signIns and invitesSent count what this run adds
InitReturning == Returning /\ signIns = 0 /\ invitesSent = 0 /\ ops = 0

\* what the invite box may hold in this run: the email of either user, and
\* u2's with a comma typed for the dot
ReturnEmails == {Email("u1"), Email("u2"), InviteKey(Email("u2"))}

NextReturning ==
  \/ \E c \in Clients : \E u \in AccountsOf(c) : SignIn(c, u)
  \/ \E c \in Clients : SignOut(c)
  \/ \E c \in Clients : \E r \in replies[c] : ResolveCallback(c, r)
  \/ \E c \in Clients : \E r \in replies[c] : InviteCallback(c, r)
  \/ \E c \in Clients, e \in ReturnEmails : handleInvite(c, e)
  \/ \E c \in Clients : Serve(c)
  \/ \E c \in Clients : Snapshot(c)

SpecReturning == InitReturning /\ [][NextReturning]_vars

\* ------------------------------------ properties of the returning user part
\* C22: an Invite is found at a sign-in only when an invite was sent for
\* exactly the email of the user who signs in, the key of the invite sent for
\* an email being the key that email's owner looks up.
C22_InviteKey ==
  \A c \in Clients :
    seen[c].invite \notin {Unread, NoWedding} => Email(seen[c].u) \in invited

\* C28: every household whose owner has a Member record has exactly one
\* Member with the role owner, the user its owner field names.
C28_SingleOwner ==
  \A w \in DOMAIN Weddings :
    ("owner" \in DOMAIN Weddings[w] /\ Exists(db, MemberPath(w, Weddings[w].owner))) =>
      {u \in DOMAIN Weddings[w].members : Weddings[w].members[u].role = "owner"}
        = {Weddings[w].owner}

\* --------------------------------------------- security rules specification
\* the rules of the setup guide: users/$uid for the user itself, weddings/$id
\* for a user with a record under members of the stored tree t (root is the
\* data before the request), invites for every signed-in user
Allowed(t, u, p) ==
  /\ u # NoUser
  /\ \/ p[1] = "users" /\ Len(p) >= 2 /\ p[2] = u
     \/ p[1] = "weddings" /\ Len(p) >= 2 /\ Exists(t, MemberPath(p[2], u))
     \/ p[1] = "invites"

\* the server under the rules: an allowed request is served; a denied read
\* rejects the promise of get(), whose .then callback never runs; a denied
\* write is rejected.  auth is the user of the connection.
ServeRuled(c) ==
  /\ outbox[c] # <<>>
  /\ LET r == Head(outbox[c]) IN
     IF Allowed(db, user[c], r.path) THEN Serve(c)
     ELSE IF r.op # "get" THEN Reject(c)
     ELSE /\ outbox' = [outbox EXCEPT ![c] = Tail(@)]
          /\ UNCHANGED <<storeVars, replies, authVars, dataVars, viewVars, snapDue, listening,
                         countVars, seen, cascade, download, invited>>

\* the subscription under the rules: the snapshot is delivered to a member;
\* for anyone else the server cancels the listener, and onValue was given
\* no cancel callback
SnapshotRuled(c) ==
  /\ snapDue[c]
  /\ IF \A w \in listening[c] : Allowed(db, user[c], WeddingPath(w)) THEN Snapshot(c)
     ELSE /\ snapDue' = [snapDue EXCEPT ![c] = FALSE]
          /\ listening' = [listening EXCEPT ![c] = {}]
          /\ UNCHANGED <<storeVars, netVars, authVars, dataVars, viewVars, countVars, seen,
                         cascade, download, invited>>

\* the store after u1 founded w1 while the database was in test mode
FoundedDb == ApplyAll(Null, BootstrapWrites("u1", "w1", 1))

\* the rules are published when u1 is signed in and has received w1; nobody
\* has signed in on c2 yet
Founded ==
  /\ db = FoundedDb
  /\ pushCount = [weddings |-> 1, expenses |-> 0, categories |-> 0, guests |-> 0,
                  vendors |-> 0]
  /\ outbox = [c \in Clients |-> <<>>]
  /\ replies = [c \in Clients |-> {}]
  /\ user = [c \in Clients |-> IF c = "c1" THEN "u1" ELSE NoUser]
  /\ authLoading = [c \in Clients |-> c # "c1"]
  /\ weddingId = [c \in Clients |-> IF c = "c1" THEN "w1" ELSE NoWedding]
  /\ darkMode = [c \in Clients |-> FALSE]
  /\ totalBudget = [c \in Clients |-> DefaultBudget]
  /\ categories = [c \in Clients |->
        IF c = "c1" THEN ObjectValues(FoundedDb.weddings.w1.categories)
        ELSE DEFAULT_CATEGORIES]
  /\ expenses = [c \in Clients |-> <<>>]
  /\ guests = [c \in Clients |-> <<>>]
  /\ costPerGuest = [c \in Clients |-> DefaultCostPerGuest]
  /\ vendors = [c \in Clients |-> <<>>]
  /\ members = [c \in Clients |->
        IF c = "c1" THEN Entries(FoundedDb.weddings.w1.members, "uid") ELSE <<>>]
  /\ dataLoaded = [c \in Clients |-> c = "c1"]
  /\ searchTerm = [c \in Clients |-> <<>>]
  /\ filterCat = [c \in Clients |-> "all"]
  /\ filterStatus = [c \in Clients |-> "all"]
  /\ snapDue = [c \in Clients |-> FALSE]
  /\ listening = [c \in Clients |-> IF c = "c1" THEN {"w1"} ELSE {}]
  /\ seen = [c \in Clients |->
        IF c = "c1" THEN [sid |-> 1, u |-> "u1", had |-> NoWedding, profile |-> NoWedding,
                          invite |-> NoWedding]
        ELSE [sid |-> 0, u |-> NoUser, had |-> NoWedding, profile |-> Unread,
              invite |-> Unread]]
  /\ cascade = [c \in Clients |-> NoCascade]
  /\ download = [c \in Clients |-> NoDownload]
  /\ invited = {}

\* the identity part reaches the state the rules are published in
FoundedUnreached == ~(Founded /\ signIns = 1 /\ invitesSent = 0 /\ ops = 0)

\* the run starts there; signIns and invitesSent count what this run adds
InitRuled == Founded /\ signIns = 0 /\ invitesSent = 0 /\ ops = 0

NextRuled ==
  \/ \E c \in Clients : \E u \in AccountsOf(c) : SignIn(c, u)
  \/ \E c \in Clients : SignOut(c)
  \/ \E c \in Clients : \E r \in replies[c] : ResolveCallback(c, r)
  \/ \E c \in Clients : \E r \in replies[c] : InviteCallback(c, r)
  \/ \E c \in Clients, e \in ReturnEmails : handleInvite(c, e)
  \/ \E c \in Clients : ServeRuled(c)
  \/ \E c \in Clients : SnapshotRuled(c)

SpecRuled == InitRuled /\ [][NextRuled]_vars

\* ------------------------------------- properties of the security rules part
\* C23: under the rules every write that the bootstrap and the invite
\* acceptance of the signed-in user issue under weddings/ is accepted: when
\* such a write is the next request the store evaluates, the rules allow it
C23_WritesAccepted ==
  \A c \in Clients :
    (/\ outbox[c] # <<>>
     /\ user[c] # NoUser
     /\ Head(outbox[c]).op # "get"
     /\ Head(outbox[c]).cb \in {"resolve", "invite"}
     /\ Head(outbox[c]).sid = seen[c].sid
     /\ Head(outbox[c]).path[1] = "weddings")
      => Allowed(db, user[c], Head(outbox[c]).path)

\* --------------------------- properties of the household part, concluded
\* C29: an update never creates a record: every Category the store holds for
\* a member's household has the attributes addCategory and the bootstrap
\* store with it (id, name, budget), whatever order the store applied a
\* remove and an update of the same id in
C29_WholeRecords ==
  \A c \in Clients :
    weddingId[c] # NoWedding =>
      LET cats == StoreCategories(db, weddingId[c]) IN
      \A k \in DOMAIN cats : {"id", "name", "budget"} \subseteq DOMAIN cats[k]

\* C30: the default categories are permanent: the category mapping of every
\* household whose document the bootstrap has written holds all nine default
\* category ids, whatever the members add, budget and delete
C30_DefaultsPermanent ==
  \A w \in DOMAIN Weddings :
    "owner" \in DOMAIN Weddings[w] => DefaultIds \subseteq DOMAIN StoreCategories(db, w)

\* a member deleted a category, the store has applied the removes, and the
\* category is gone from the household that still holds the nine defaults
C30_Witness ==
  \E c \in Clients :
    /\ cascade[c].cat # "null"
    /\ CascadeDone(c)
    /\ cascade[c].cat \notin DOMAIN StoreCategories(db, cascade[c].wid)
    /\ DefaultIds \subseteq DOMAIN StoreCategories(db, cascade[c].wid)

====
